---- MODULE Spec2Model ----
(***************************************************************************)
(* Model of the AITTA triage agent (services/agent.py): the fixed-order     *)
(* pipeline of AITTAgent.process_alert over one alert, the two analysis    *)
(* strategies, and the batch scanner scan_and_create_alerts.               *)
(*                                                                         *)
(* Python dicts are functions whose DOMAIN is the set of keys present.     *)
(* A JSON document is wrapped as [jt |-> "object", o |-> dict] or          *)
(* [jt |-> "array"], so that a non-object document is distinguishable.     *)
(* Texts that the code only stores or forwards are abstract strings; texts *)
(* the code inspects (keywords of a raw event, code fences of an LLM       *)
(* answer) are sequences of tokens.                                        *)
(***************************************************************************)
EXTENDS Integers, Sequences, FiniteSets, TLC

VARIABLES
    pc,            \* position of the process_alert coroutine
    alert,         \* the AlertData being processed
    llm_available, \* AITTAgent.llm_available, fixed by _setup_llm
    inflight,      \* the awaited mcp_manager.call_tool, or NoCall
    timer,         \* seconds elapsed on the asyncio.wait_for of the awaited call
    calls,         \* tool calls issued so far through mcp_manager.call_tool
    outcome,       \* per step, how the step ended
    logs,          \* local logs of process_alert
    cmdb_data,     \* local cmdb_data of process_alert (a JSON document)
    owner_team,    \* local owner_team of _enrich_with_cmdb
    llm_prompt,    \* the prompt handed to the LLM provider, or NoPrompt
    llm_reply,     \* what the LLM provider answered, or NoReply
    analysis,      \* local analysis of process_alert (a dict)
    ticket,        \* local ticket of process_alert (TicketResponse or NoTicket)
    db_up,         \* whether the database session accepts a commit
    db_flips,      \* number of times the database changed availability
    db_activity,   \* rows of table agent_activity, in insertion order
    db_tickets,    \* rows of table tickets, in insertion order
    scan,          \* the locals of scan_and_create_alerts
    mcp,           \* the MCPClientManager and the invocation it is serving
    suspended,     \* the locals of the process_alert coroutine that is not running
    now,           \* the wall clock, datetime.now()
    start_time     \* local start_time of process_alert

vars == <<pc, alert, llm_available, inflight, timer, calls, outcome, logs,
          cmdb_data, owner_team, llm_prompt, llm_reply, analysis, ticket, db_up,
          db_flips, db_activity, db_tickets, scan, mcp, suspended, now,
          start_time>>

-----------------------------------------------------------------------------
(* Bounds of the model *)

MaxDbFlips == 1
TickSeconds == 10
MaxEvents == 2

(* Program constants *)

TOOL_TIMEOUT == 20
LLM_TIMEOUT == 30
SCAN_TIMEOUT == 30
SUMMARY_MSG_LIMIT == 50
LLM_LOG_LIMIT == 10
RULE_LOG_LIMIT == 5

JIRA_PROJECT_KEY == "OPS"
OtherOwnerTeam == "unassigned-default-team"
DEFAULT_OWNER_TEAM == "DevOps"
DEFAULT_SERVICE == "DevOps Service"
DEFAULT_ASSIGNEE == "DevOps"
DEFAULT_ISSUE_TYPE == "Task"

-----------------------------------------------------------------------------
(* Dicts and JSON documents *)

EmptyDict == [k \in {} |-> ""]

Get(d, k, default) == IF k \in DOMAIN d THEN d[k] ELSE default

Obj(d) == [jt |-> "object", o |-> d]
JArray == [jt |-> "array"]
IsDict(j) == j.jt = "object"

(* What mcp_manager.call_tool hands back to the agent: None when the       *)
(* result has no text block, otherwise the text of the first text block.   *)
NoneValue == [t |-> "None"]
EmptyText == [t |-> "str", body |-> "empty"]
GarbageText == [t |-> "str", body |-> "garbage"]
JsonText(j) == [t |-> "str", body |-> "json", doc |-> j]

(* _parse_tool_response: falsy response -> RuntimeError; a str goes through *)
(* json.loads, which raises on text that is not JSON.                      *)
ParseToolResponse(response) ==
    IF response.t = "None" \/ response.body = "empty"
    THEN [ok |-> FALSE, err |-> "Tool returned no content"]
    ELSE IF response.body = "json"
         THEN [ok |-> TRUE, val |-> response.doc]
         ELSE [ok |-> FALSE, err |-> "Invalid JSON from tool"]

-----------------------------------------------------------------------------
(* Texts *)

Min(a, b) == IF a <= b THEN a ELSE b

Take(s, n) == SubSeq(s, 1, Min(n, Len(s)))

ShortMessage == "CPU at 99%"
LongMessage == "Disk latency above threshold on volume /data for the last 15 minutes"

(* An alert message is a posted text or the text the batch scanner builds *)
Msg(text) == [fmt |-> "text", text |-> text]

(* len() of the alert messages of the model; the fixed words of a scanner *)
(* message alone are 54 characters                                        *)
StrLen(m) ==
    IF m.fmt = "scan" THEN 54
    ELSE IF m.text = LongMessage THEN 68 ELSE 10

(* m[:n]: the first min(len(m), n) characters of m *)
Prefix(m, n) == [of |-> m, n |-> Min(StrLen(m), n)]

(* str.lower() on the words of the model *)
Lower(w) ==
    CASE w = "ERROR" -> "error"
      [] w = "Error" -> "error"
      [] w = "FATAL" -> "fatal"
      [] w = "Critical" -> "critical"
      [] w = "High" -> "high"
      [] OTHER -> w

(* kw in text.lower(), for a text given as its sequence of words *)
ContainsLower(text, kw) == \E i \in 1..Len(text) : Lower(text[i]) = kw

-----------------------------------------------------------------------------
(* Alerts and the documents the tool backends answer with *)

NoAlert == [alert_id |-> "none"]

MkAlert(sev, text) ==
    [alert_id |-> "a1", severity |-> sev, message |-> Msg(text), host |-> "h1",
     timestamp |-> 0]

Severities == {"Critical", "High", "Medium", "Low"}

(* alerts of the pipeline specification *)
Alerts == {MkAlert("Critical", ShortMessage), MkAlert("Medium", LongMessage)}

(* alerts of the analysis specification *)
AllAlerts == {MkAlert(s, m) : s \in Severities, m \in {ShortMessage, LongMessage}}

LogError(i) == [timestamp |-> i, message |-> <<"ERROR", "memory", "usage">>]
LogErr2(i) == [timestamp |-> i, message |-> <<"disk", "Error">>]
LogInfo(i) == [timestamp |-> i, message |-> <<"checkpoint">>]

TwoLogs == <<LogError(1), LogInfo(2)>>
ManyLogs == <<LogError(1), LogInfo(2), LogInfo(3), LogErr2(4), LogInfo(5), LogError(6)>>

(* splunk_server.query_logs *)
LogsDoc(lg) == Obj([host |-> "h1", results_count |-> Len(lg), logs |-> lg])

(* cmdb_server.get_asset_info *)
AssetHigh ==
    Obj([hostname |-> "h1", service |-> "Payment Gateway",
         owner_team |-> "Payment Team",
         dependencies |-> <<"prod-db-01", "prod-cache-01">>,
         criticality |-> "High"])
AssetCritical ==
    Obj([hostname |-> "h1", service |-> "Order Service",
         owner_team |-> "Order Team", dependencies |-> <<"prod-db-02", "prod-mq-01">>,
         criticality |-> "Critical"])
AssetUnknown ==
    Obj([hostname |-> "h1", service |-> "Unknown", owner_team |-> "DevOps",
         dependencies |-> <<>>, criticality |-> "Medium",
         status |-> "Not found in CMDB"])
AssetLow ==
    Obj([hostname |-> "h1", service |-> "Unknown", owner_team |-> "Unassigned",
         criticality |-> "Low", status |-> "Unknown"])
AssetNotFound == Obj([hostname |-> "h1", status |-> "Not found"])
ErrorPayload == Obj([error |-> "Error retrieving asset info"])

(* cmdb_server.create_incident *)
IncidentDoc == Obj([incident_number |-> "MOCK12345", sys_id |-> "mock-sysid"])
IncidentError == Obj([error |-> "hostname and short_description are required"])

-----------------------------------------------------------------------------
(* Results of the synchronous helpers: a value or a raised exception *)

Ok(v) == [ok |-> TRUE, val |-> v]
Raise(e) == [ok |-> FALSE, err |-> e]

(* _rule_based_analysis: priority_map *)
AltPriorityMap ==
    (<<"Critical", "High">> :> "Critical") @@
    (<<"Critical", "Medium">> :> "Critical") @@
    (<<"High", "High">> :> "High") @@
    (<<"High", "Medium">> :> "Medium") @@
    (<<"Medium", "High">> :> "Medium")

PriorityMap ==
    (<<"Critical", "High">> :> "Critical") @@
    (<<"Critical", "Medium">> :> "High") @@
    (<<"High", "High">> :> "High") @@
    (<<"High", "Medium">> :> "Medium") @@
    (<<"Medium", "High">> :> "Medium")

ErrorCount(lg) ==
    Cardinality({i \in 1..Len(lg) : ContainsLower(lg[i].message, "error")})

(* _rule_based_analysis(alert, logs, cmdb_data); cmdb_data.get raises on a *)
(* document that is not a dict.                                            *)
RuleBasedAnalysis(a, lg, cj) ==
    IF ~IsDict(cj) THEN Raise("AttributeError")
    ELSE
    LET cd == cj.o
        criticality == Get(cd, "criticality", "Medium")
        priority == IF <<a.severity, criticality>> \in DOMAIN PriorityMap
                    THEN PriorityMap[<<a.severity, criticality>>]
                    ELSE "Medium"
        summary == [fmt |-> "rule_summary", severity |-> a.severity,
                    message |-> Prefix(a.message, SUMMARY_MSG_LIMIT),
                    host |-> a.host]
        description ==
            [fmt |-> "rule_description", host |-> a.host,
             service |-> Get(cd, "service", "Unknown"),
             severity |-> a.severity, timestamp |-> a.timestamp,
             message |-> a.message, error_count |-> ErrorCount(lg),
             criticality |-> criticality, priority |-> priority,
             entries |-> Take(lg, RULE_LOG_LIMIT),
             dependencies |-> Get(cd, "dependencies", <<>>)]
    IN Ok(Obj([priority |-> priority,
               root_cause |-> [fmt |-> "alert_triggered", message |-> a.message],
               summary |-> summary,
               description |-> description,
               issue_type |-> "Task"]))

(* the fallback of _analyze_incident *)
MinimalAnalysisDefaultPriority(a) ==
    [priority |-> "Medium",
     summary |-> [fmt |-> "minimal_summary", severity |-> a.severity, host |-> a.host],
     description |-> [fmt |-> "raw", text |-> a.message]]

MinimalAnalysis(a) ==
    [priority |-> a.severity,
     summary |-> [fmt |-> "minimal_summary", severity |-> a.severity, host |-> a.host],
     description |-> [fmt |-> "raw", text |-> a.message]]

-----------------------------------------------------------------------------
(* The LLM strategy.  An answer of the provider is a sequence of tokens: a  *)
(* code-fence marker tagged json, a bare code-fence marker, prose, or one  *)
(* JSON document.                                                          *)

FenceJson == [tok |-> "fence_json"]
Fence == [tok |-> "fence"]
Prose == [tok |-> "prose"]
Json(j) == [tok |-> "json", doc |-> j]

(* both markers contain the three backticks the second split looks for *)
HasBackticks(t) == t.tok \in {"fence_json", "fence"}

LlmFull ==
    Obj([priority |-> "High",
         root_cause |-> [fmt |-> "llm"],
         summary |-> [fmt |-> "llm"],
         description |-> [fmt |-> "llm"],
         issue_type |-> "Bug"])
LlmPartial == Obj([priority |-> "Low", root_cause |-> [fmt |-> "llm"]])

LlmTexts ==
    { <<Json(LlmFull)>>,
      <<FenceJson, Json(LlmFull), Fence>>,
      <<Prose, Fence, Json(LlmPartial), Fence, Prose>>,
      <<Json(JArray)>>,
      <<Prose>>,
      <<FenceJson, Prose, Fence>> }

(* index of the first token of text satisfying the test, 0 when none *)
FirstFenceJson(text) ==
    IF \E i \in 1..Len(text) : text[i] = FenceJson
    THEN CHOOSE i \in 1..Len(text) :
            /\ text[i] = FenceJson
            /\ \A j \in 1..(i-1) : text[j] # FenceJson
    ELSE 0

FirstBackticks(text) ==
    IF \E i \in 1..Len(text) : HasBackticks(text[i])
    THEN CHOOSE i \in 1..Len(text) :
            /\ HasBackticks(text[i])
            /\ \A j \in 1..(i-1) : ~HasBackticks(text[j])
    ELSE 0

(* text.split(marker)[1].split(fence)[0]: what follows the marker at      *)
(* position i, up to the next code-fence marker of either kind             *)
Between(text, i) ==
    LET rest == SubSeq(text, i + 1, Len(text))
        k == FirstBackticks(rest)
    IN IF k = 0 THEN rest ELSE SubSeq(rest, 1, k - 1)

(* the "Extract JSON" lines of _llm_analysis *)
StripFences(text) ==
    IF FirstFenceJson(text) # 0 THEN Between(text, FirstFenceJson(text))
    ELSE IF FirstBackticks(text) # 0 THEN Between(text, FirstBackticks(text))
    ELSE text

(* json.loads: exactly one JSON document, anything else is a decode error *)
JsonLoads(text) ==
    IF Len(text) = 1 /\ text[1].tok = "json"
    THEN Ok(text[1].doc)
    ELSE Raise("JSONDecodeError")

(* the prompt of _llm_analysis, built before its try block *)
LlmPrompt(a, lg, cj) ==
    IF ~IsDict(cj) THEN Raise("AttributeError")
    ELSE Ok([severity |-> a.severity, host |-> a.host, message |-> a.message,
             timestamp |-> a.timestamp, n_logs |-> Len(lg),
             logs |-> Take(lg, LLM_LOG_LIMIT),
             owner_team |-> Get(cj.o, "owner_team", "Unknown"),
             service |-> Get(cj.o, "service", "Unknown"),
             criticality |-> Get(cj.o, "criticality", "Unknown"),
             dependencies |-> Get(cj.o, "dependencies", <<>>)])

(* provider replies: the call raises, or returns a text *)
ProviderRaises == [r |-> "raise"]
ProviderText(t) == [r |-> "text", text |-> t]
(* generate_content or messages.create does not return *)
ProviderSilent == [r |-> "never"]
ProviderReplies == {ProviderRaises} \cup {ProviderText(t) : t \in LlmTexts}

(* the except branch of _llm_analysis *)
LlmFallbackWithoutLogs(a, lg, cj) == RuleBasedAnalysis(a, <<>>, cj)

LlmFallback(a, lg, cj) == RuleBasedAnalysis(a, lg, cj)

(* the try/except of _llm_analysis, given the provider's reply *)
LlmAnalysis(a, lg, cj, reply) ==
    IF reply.r = "raise" THEN LlmFallback(a, lg, cj)
    ELSE LET parsed == JsonLoads(StripFences(reply.text))
         IN IF parsed.ok THEN Ok(parsed.val) ELSE LlmFallback(a, lg, cj)

(* whether _llm_analysis took its except branch *)
LlmFailed(reply) ==
    reply.r = "raise" \/ ~JsonLoads(StripFences(reply.text)).ok

-----------------------------------------------------------------------------
(* The awaited tool call: asyncio.wait_for(mcp_manager.call_tool(...))      *)

NoCall == [server |-> "none"]
NoRun == [pc |-> "none"]
NoTicket == [ticket_id |-> "none"]
NoPrompt == [severity |-> "none"]
NoReply == [r |-> "none"]

Steps == {"logs", "cmdb", "analysis", "ticket", "incident", "save"}

(* what the awaited call_tool does: it raises, or it returns a value *)
ReplyRaise == [k |-> "raise"]
ReplyTimeout == [k |-> "timeout"]
ReplyReturn(v) == [k |-> "return", v |-> v]

AllFaults ==
    {ReplyRaise, ReplyReturn(NoneValue), ReplyReturn(EmptyText),
     ReplyReturn(GarbageText), ReplyReturn(JsonText(JArray))}

(* An environment bounds what the collaborators do in one specification:   *)
(* the faulty replies of the tool backends and the tools that give them,   *)
(* whether a backend may stay silent, how many of a backend's documents    *)
(* are tried, the tools whose deadline is explored, and the answers of the *)
(* LLM provider.                                                           *)
PipelineTools == {"query_logs", "get_asset_info", "create_ticket", "create_incident"}

FullEnv ==
    [faults |-> AllFaults, faulty |-> PipelineTools, responds |-> BOOLEAN,
     ndocs |-> 2, timed |-> PipelineTools, llm |-> ProviderReplies]

ScanEnv ==
    [faults |-> {ReplyRaise, ReplyReturn(GarbageText)}, faulty |-> {"search_recent", "create_ticket"},
     responds |-> {TRUE}, ndocs |-> 1, timed |-> {"search_recent"},
     llm |-> {ProviderRaises, ProviderText(<<Json(LlmFull)>>)}]

(* the faulty replies the awaited tool can give *)
Faults(E) == IF inflight.tool \in E.faulty THEN E.faults ELSE {}

Offered(E, docs) == {ReplyReturn(JsonText(docs[i])) : i \in 1..Min(E.ndocs, Len(docs))}

(* a deadline expiry taken for an answer without content fields *)
StepResultTimeoutAnswers(reply) ==
    IF reply.k = "raise" THEN Raise("raise")
    ELSE IF reply.k = "timeout" THEN Ok(Obj(EmptyDict))
    ELSE LET p == ParseToolResponse(reply.v)
         IN IF ~p.ok
            THEN Raise(IF p.err = "Tool returned no content" THEN "nocontent" ELSE "nonjson")
            ELSE IF ~IsDict(p.val) THEN [ok |-> FALSE, err |-> "badshape", val |-> p.val]
            ELSE p

(* the value of the awaited call followed by _parse_tool_response, and the *)
(* kind of failure when either raises; a document that is not a dict makes *)
(* the first .get of the step raise                                        *)
StepResult(reply) ==
    IF reply.k = "raise" THEN Raise("raise")
    ELSE IF reply.k = "timeout" THEN Raise("timeout")
    ELSE LET p == ParseToolResponse(reply.v)
         IN IF ~p.ok
            THEN Raise(IF p.err = "Tool returned no content" THEN "nocontent" ELSE "nonjson")
            ELSE IF ~IsDict(p.val) THEN [ok |-> FALSE, err |-> "badshape", val |-> p.val]
            ELSE p

(* a store that keeps one entry per alert id, overwritten by each step *)
LogActivityForOverwrites(alert_id, action, status) ==
    IF db_up
    THEN Append(SelectSeq(db_activity, LAMBDA row : row.alert_id # alert_id),
                [alert_id |-> alert_id, action |-> action, status |-> status])
    ELSE db_activity

(* log_activity: the row is added unless the commit fails; never raises *)
LogActivityFor(alert_id, action, status) ==
    IF db_up
    THEN Append(db_activity, [alert_id |-> alert_id, action |-> action, status |-> status])
    ELSE db_activity

(* log_activity letting the failure of its commit reach process_alert *)
AfterLogActivityRaises(next) == IF db_up THEN next ELSE "raised"

(* log_activity: where the run is after a call of log_activity; the except *)
(* branch absorbs a failed commit, so the run is at the step that follows  *)
(* whether the entry was written or not                                    *)
AfterLogActivity(next) == next

(* log_activity writing every entry with the status of the receipt entry *)
LogActivityProcessing(action, status) ==
    LogActivityFor(alert.alert_id, action, "processing")

LogActivity(action, status) == LogActivityFor(alert.alert_id, action, status)

IssueCall(E, server, tool, args, timeout) ==
    /\ \E responds \in E.responds :
          inflight' = [server |-> server, tool |-> tool, args |-> args,
                       timeout |-> timeout, responds |-> responds]
    /\ timer' = 0
    /\ calls' = Append(calls, [server |-> server, tool |-> tool, args |-> args])

(* the event loop's clock while a call is awaited *)
Tick(E) ==
    /\ inflight # NoCall
    /\ inflight.tool \in E.timed
    /\ timer < inflight.timeout
    /\ timer' = timer + TickSeconds
    /\ UNCHANGED <<pc, alert, llm_available, inflight, calls, outcome, logs,
                   cmdb_data, owner_team, llm_prompt, llm_reply, analysis, ticket,
                   db_up, db_flips, db_activity, db_tickets, scan>>
    /\ UNCHANGED <<mcp, suspended, now, start_time>>

(* the replies the awaited call can resolve with in the current state: the *)
(* TimeoutError of wait_for once the deadline has passed, a reply of the   *)
(* backend before that                                                     *)
DeadlineNeverFires(E, docs) ==
    IF inflight.responds THEN Faults(E) \cup Offered(E, docs) ELSE {}

Resolutions(E, docs) ==
    IF timer >= inflight.timeout THEN {ReplyTimeout}
    ELSE IF inflight.responds THEN Faults(E) \cup Offered(E, docs)
    ELSE {}

(* the database becomes unavailable, or available again, during a run *)
DbFlip ==
    /\ pc \notin {"idle", "returned", "raised"}
    /\ db_flips < MaxDbFlips
    /\ db_up' = ~db_up
    /\ db_flips' = db_flips + 1
    /\ UNCHANGED <<pc, alert, llm_available, inflight, timer, calls, outcome,
                   logs, cmdb_data, owner_team, llm_prompt, llm_reply, analysis,
                   ticket, db_activity, db_tickets, scan>>
    /\ UNCHANGED <<mcp, suspended, now, start_time>>

-----------------------------------------------------------------------------
(* AITTAgent.process_alert, one action per step of the coroutine *)

(* process_alert, step 1: the receipt is logged *)
StartRun(a) ==
    /\ alert' = a
    /\ db_activity' = LogActivityFor(a.alert_id, "Alert Received", "processing")
    /\ pc' = AfterLogActivity("retrieve_logs")
    /\ calls' = <<>>
    /\ outcome' = [s \in Steps |-> "none"]
    /\ logs' = <<>>
    /\ cmdb_data' = Obj(EmptyDict)
    /\ owner_team' = DEFAULT_OWNER_TEAM
    /\ llm_prompt' = NoPrompt
    /\ llm_reply' = NoReply
    /\ analysis' = EmptyDict
    /\ ticket' = NoTicket
    /\ inflight' = NoCall
    /\ timer' = 0
    /\ start_time' = now

(* POST of one alert: the API route calls process_alert *)
ProcessAlert ==
    /\ pc = "idle"
    /\ scan.pc = "idle"
    /\ \E a \in Alerts : StartRun(a)
    /\ UNCHANGED <<llm_available, db_up, db_flips, db_tickets, scan>>
    /\ UNCHANGED <<mcp, suspended, now>>

(* _retrieve_logs: the query_logs call is issued *)
RetrieveLogsCall(E) ==
    /\ pc = "retrieve_logs"
    /\ IssueCall(E, "splunk", "query_logs",
                 [host |-> alert.host, time_range |-> "30m",
                  search_query |-> "(error OR exception OR failed)"],
                 TOOL_TIMEOUT)
    /\ pc' = "await_logs"
    /\ UNCHANGED <<alert, llm_available, outcome, logs, cmdb_data, owner_team,
                   llm_prompt, llm_reply, analysis, ticket, db_up, db_flips,
                   db_activity, db_tickets, scan>>
    /\ UNCHANGED <<mcp, suspended, now, start_time>>

(* _retrieve_logs: the call resolves; any exception leaves logs empty *)
RetrieveLogsResolve(E) ==
    /\ pc = "await_logs"
    /\ \E reply \in Resolutions(E, <<LogsDoc(TwoLogs), LogsDoc(<<>>)>>) :
          LET res == StepResult(reply)
          IN IF res.ok
             THEN /\ logs' = Get(res.val.o, "logs", <<>>)
                  /\ db_activity' = LogActivity("Logs Retrieved", "complete")
                  /\ outcome' = [outcome EXCEPT !["logs"] = "ok"]
             ELSE /\ logs' = <<>>
                  /\ db_activity' = LogActivity("Logs Retrieval", "error")
                  /\ outcome' = [outcome EXCEPT !["logs"] = res.err]
    /\ pc' = AfterLogActivity("enrich")
    /\ inflight' = NoCall
    /\ timer' = 0
    /\ UNCHANGED <<alert, llm_available, calls, cmdb_data, owner_team,
                   llm_prompt, llm_reply, analysis, ticket, db_up, db_flips,
                   db_tickets, scan>>
    /\ UNCHANGED <<mcp, suspended, now, start_time>>

(* _enrich_with_cmdb started without awaiting _retrieve_logs *)
EnrichCallWithoutAwait(E) ==
    /\ pc \in {"enrich", "await_logs"}
    /\ owner_team' = DEFAULT_OWNER_TEAM
    /\ cmdb_data' = Obj(EmptyDict)
    /\ IssueCall(E, "cmdb", "get_asset_info", [hostname |-> alert.host], TOOL_TIMEOUT)
    /\ pc' = "await_cmdb"
    /\ UNCHANGED <<alert, llm_available, outcome, logs, llm_prompt, llm_reply,
                   analysis, ticket, db_up, db_flips, db_activity, db_tickets,
                   scan>>
    /\ UNCHANGED <<mcp, suspended, now, start_time>>

(* _enrich_with_cmdb: defaults are set and the get_asset_info call is issued *)
EnrichCall(E) ==
    /\ pc = "enrich"
    /\ owner_team' = DEFAULT_OWNER_TEAM
    /\ cmdb_data' = Obj(EmptyDict)
    /\ IssueCall(E, "cmdb", "get_asset_info", [hostname |-> alert.host], TOOL_TIMEOUT)
    /\ pc' = "await_cmdb"
    /\ UNCHANGED <<alert, llm_available, outcome, logs, llm_prompt, llm_reply,
                   analysis, ticket, db_up, db_flips, db_activity, db_tickets,
                   scan>>
    /\ UNCHANGED <<mcp, suspended, now, start_time>>

(* _enrich_with_cmdb: the call resolves.  cmdb_data is assigned as soon as  *)
(* the response parses, before the .get calls that need a dict.            *)
EnrichResolve(E) ==
    /\ pc = "await_cmdb"
    /\ \E reply \in Resolutions(E, <<AssetHigh, ErrorPayload>>) :
          LET res == StepResult(reply)
          IN IF res.ok
             THEN /\ cmdb_data' = res.val
                  /\ owner_team' = Get(res.val.o, "owner_team", owner_team)
                  /\ db_activity' = LogActivity("Context Enriched", "complete")
                  /\ outcome' = [outcome EXCEPT !["cmdb"] = "ok"]
             ELSE /\ cmdb_data' = IF res.err = "badshape" THEN res.val ELSE cmdb_data
                  /\ owner_team' = owner_team
                  /\ db_activity' = LogActivity("CMDB Query", "error")
                  /\ outcome' = [outcome EXCEPT !["cmdb"] = res.err]
    /\ pc' = AfterLogActivity("analyze")
    /\ inflight' = NoCall
    /\ timer' = 0
    /\ UNCHANGED <<alert, llm_available, calls, logs, llm_prompt, llm_reply,
                   analysis, ticket, db_up, db_flips, db_tickets, scan>>
    /\ UNCHANGED <<mcp, suspended, now, start_time>>

(* _analyze_incident: the result is accepted when it is a dict, and any    *)
(* exception, the non-dict RuntimeError included, gives the minimal        *)
(* analysis; the fallback writes no activity row.                          *)
AnalyzeIncidentFinish(r, how) ==
    /\ IF r.ok /\ IsDict(r.val)
       THEN /\ analysis' = r.val.o
            /\ db_activity' = LogActivity("Analysis Complete", "complete")
            /\ outcome' = [outcome EXCEPT !["analysis"] = how]
            /\ pc' = AfterLogActivity("create_ticket")
       ELSE /\ analysis' = MinimalAnalysis(alert)
            /\ db_activity' = db_activity
            /\ outcome' = [outcome EXCEPT !["analysis"] = "minimal"]
            /\ pc' = "create_ticket"

(* _analyze_incident with llm_available false: the rule-based strategy *)
AnalyzeRuleBased ==
    /\ pc = "analyze"
    /\ ~llm_available
    /\ AnalyzeIncidentFinish(RuleBasedAnalysis(alert, logs, cmdb_data), "rule")
    /\ UNCHANGED <<alert, llm_available, inflight, timer, calls, logs, cmdb_data,
                   owner_team, llm_prompt, llm_reply, ticket, db_up, db_flips,
                   db_tickets, scan>>
    /\ UNCHANGED <<mcp, suspended, now, start_time>>

(* _analyze_incident choosing the LLM strategy whatever llm_available says *)
AnalyzeLlmCallPerCall ==
    /\ pc = "analyze"
    /\ LET prompt == LlmPrompt(alert, logs, cmdb_data)
       IN IF prompt.ok
          THEN /\ llm_prompt' = prompt.val
               /\ pc' = "await_llm"
               /\ UNCHANGED <<analysis, db_activity, outcome>>
          ELSE /\ llm_prompt' = llm_prompt
               /\ AnalyzeIncidentFinish(prompt, "llm")
    /\ UNCHANGED <<alert, llm_available, inflight, timer, calls, logs, cmdb_data,
                   owner_team, llm_reply, ticket, db_up, db_flips, db_tickets,
                   scan>>
    /\ UNCHANGED <<mcp, suspended, now, start_time>>

(* _analyze_incident with llm_available true: _llm_analysis builds the     *)
(* prompt and calls the provider                                           *)
AnalyzeLlmCall ==
    /\ pc = "analyze"
    /\ llm_available
    /\ LET prompt == LlmPrompt(alert, logs, cmdb_data)
       IN IF prompt.ok
          THEN /\ llm_prompt' = prompt.val
               /\ pc' = "await_llm"
               /\ UNCHANGED <<analysis, db_activity, outcome>>
          ELSE /\ llm_prompt' = llm_prompt
               /\ AnalyzeIncidentFinish(prompt, "llm")
    /\ UNCHANGED <<alert, llm_available, inflight, timer, calls, logs, cmdb_data,
                   owner_team, llm_reply, ticket, db_up, db_flips, db_tickets,
                   scan>>
    /\ UNCHANGED <<mcp, suspended, now, start_time>>

(* _llm_analysis: the provider call returns or raises.  The call is made  *)
(* synchronously inside the coroutine, which has no await of its own: the  *)
(* event loop, and with it the timer of the enclosing wait_for, runs again *)
(* only when the call has returned or raised, so a provider that does not  *)
(* answer leaves the run inside the call.                                  *)
AnalyzeLlmReply(E) ==
    /\ pc = "await_llm"
    /\ llm_reply # ProviderSilent
    /\ \E reply \in E.llm :
          /\ llm_reply' = reply
          /\ IF reply = ProviderSilent
             THEN UNCHANGED <<pc, analysis, db_activity, outcome>>
             ELSE AnalyzeIncidentFinish(
                      LlmAnalysis(alert, logs, cmdb_data, reply),
                      IF reply.r = "raise" THEN "llm_raise"
                      ELSE IF LlmFailed(reply) THEN "llm_unparsable"
                      ELSE "llm")
    /\ UNCHANGED <<alert, llm_available, inflight, timer, calls, logs, cmdb_data,
                   owner_team, llm_prompt, ticket, db_up, db_flips, db_tickets,
                   scan>>
    /\ UNCHANGED <<mcp, suspended, now, start_time>>

(* _create_jira_ticket: where the coroutine goes when its try block raises: *)
(* the except branch logs and re-raises as HTTPException                   *)
TicketFailureSwallowed == "create_incident"

AfterTicketFailure == "raised"

(* _create_jira_ticket: the arguments are read from the analysis, a missing *)
(* key raising KeyError before any call, and the create_ticket call is     *)
(* issued                                                                  *)
CreateTicketCall(E) ==
    /\ pc = "create_ticket"
    /\ IF {"summary", "description", "priority"} \subseteq DOMAIN analysis
       THEN /\ IssueCall(E, "jira", "create_ticket",
                         [project |-> JIRA_PROJECT_KEY,
                          summary |-> analysis["summary"],
                          description |-> analysis["description"],
                          priority |-> analysis["priority"],
                          assignee |-> Get(analysis, "assigned_to", DEFAULT_ASSIGNEE),
                          issue_type |-> Get(analysis, "issue_type", DEFAULT_ISSUE_TYPE)],
                         TOOL_TIMEOUT)
            /\ pc' = "await_ticket"
            /\ UNCHANGED <<outcome, db_activity>>
       ELSE /\ db_activity' = LogActivity("Ticket Creation", "error")
            /\ outcome' = [outcome EXCEPT !["ticket"] = "keyerror"]
            /\ pc' = AfterTicketFailure
            /\ UNCHANGED <<inflight, timer, calls>>
    /\ UNCHANGED <<alert, llm_available, logs, cmdb_data, owner_team, llm_prompt,
                   llm_reply, analysis, ticket, db_up, db_flips, db_tickets, scan>>
    /\ UNCHANGED <<mcp, suspended, now, start_time>>

(* jira_server.create_ticket: the key of the n-th issue of the project *)
TicketIdFor(n) ==
    CASE n = 0 -> "OPS-101"
      [] n = 1 -> "OPS-102"
      [] OTHER -> "OPS-103"

TicketDoc(n) ==
    Obj([status |-> "created", ticket_id |-> TicketIdFor(n),
         url |-> "jira/browse/" \o TicketIdFor(n), mock |-> FALSE])

(* a created-ticket document that carries no ticket_id *)
TicketDocNoId == Obj([status |-> "created"])

(* processing time counted from the start of the run *)
ProcessingTimeFromStart(a) == now - start_time

(* _create_jira_ticket: processing_time, the wall clock minus the alert's  *)
(* timestamp taken as a naive local time                                   *)
ProcessingTime(a) == now - a.timestamp

(* _create_jira_ticket: the call resolves with one of the given replies *)
CreateTicketResolveWith(replies) ==
    /\ \E reply \in replies :
          LET res == StepResult(reply)
          IN IF res.ok
             THEN /\ ticket' =
                        [ticket_id |-> Get(res.val.o, "ticket_id", JIRA_PROJECT_KEY \o "-XXXX"),
                         priority |-> analysis["priority"],
                         summary |-> analysis["summary"],
                         description |-> analysis["description"],
                         assigned_to |-> Get(analysis, "assigned_to", DEFAULT_ASSIGNEE),
                         url |-> Get(res.val.o, "url", ""),
                         processing_time |-> ProcessingTime(alert)]
                  /\ db_activity' = LogActivity("Ticket Created", "complete")
                  /\ outcome' = [outcome EXCEPT !["ticket"] = "ok"]
                  /\ pc' = AfterLogActivity("create_incident")
             ELSE /\ ticket' = ticket
                  /\ db_activity' = LogActivity("Ticket Creation", "error")
                  /\ outcome' = [outcome EXCEPT !["ticket"] = res.err]
                  /\ pc' = AfterTicketFailure
    /\ inflight' = NoCall
    /\ timer' = 0
    /\ UNCHANGED <<alert, llm_available, calls, logs, cmdb_data, owner_team,
                   llm_prompt, llm_reply, analysis, db_up, db_flips, db_tickets,
                   scan>>
    /\ UNCHANGED <<mcp, suspended, now, start_time>>

(* _create_jira_ticket against the backends of an environment *)
CreateTicketResolve(E) ==
    /\ pc = "await_ticket"
    /\ CreateTicketResolveWith(
           Resolutions(E, <<TicketDoc(Len(db_tickets)), TicketDocNoId>>))

-----------------------------------------------------------------------------
(* jira_server.py: the create_ticket tool of the Jira server                *)

(* the configurations of the server: USE_MOCK_JIRA and whether JIRA_TOKEN   *)
(* is set                                                                   *)
JiraMockModes ==
    {[use_mock |-> TRUE, has_token |-> TRUE],
     [use_mock |-> TRUE, has_token |-> FALSE],
     [use_mock |-> FALSE, has_token |-> FALSE]}

(* the ticket id of _mock_create_ticket: the project and the time of day *)
MockTicketId(project) == project \o "-120000"

(* _mock_create_ticket(project, summary, priority, assignee): a call that   *)
(* does not pass the four positional arguments raises TypeError              *)
MockCreateTicket(argv) ==
    IF Len(argv) # 4
    THEN Raise("TypeError")
    ELSE Ok(Obj([status |-> "created", ticket_id |-> MockTicketId(argv[1]),
                 project |-> argv[1], summary |-> argv[2], priority |-> argv[3],
                 assignee |-> IF argv[4] = "" THEN "Unassigned" ELSE argv[4],
                 url |-> "jira/browse/" \o MockTicketId(argv[1]),
                 mock |-> TRUE]))

(* create_ticket: in mock mode or without a token it returns what          *)
(* _mock_create_ticket(project, summary, priority) gives; otherwise the    *)
(* issue created over REST                                                  *)
JiraCreateTicket(mode, args) ==
    IF mode.use_mock \/ ~mode.has_token
    THEN MockCreateTicket(<<Get(args, "project", "KAG"), Get(args, "summary", ""),
                            Get(args, "priority", "Medium")>>)
    ELSE Ok(TicketDoc(0))

(* what call_tool hands to the agent for a create_ticket call: the text of *)
(* the returned content, or, when the tool raised, what the MCP server     *)
(* library makes of the exception: a result whose text is the message of   *)
(* the exception, or an error response, which extract_text_content turns   *)
(* into None                                                               *)
JiraAnswers(args) ==
    UNION {LET r == JiraCreateTicket(mode, args)
           IN IF r.ok THEN {ReplyReturn(JsonText(r.val))}
              ELSE {ReplyReturn(GarbageText), ReplyReturn(NoneValue)} :
           mode \in JiraMockModes}

(* _create_jira_ticket against a Jira server in mock mode *)
CreateTicketResolveMock ==
    /\ pc = "await_ticket"
    /\ CreateTicketResolveWith(JiraAnswers(inflight.args))

(* _map_priority_to_urgency and _map_priority_to_impact share one table *)
MapPriority(priority) ==
    CASE priority = "Critical" -> "1"
      [] priority = "High" -> "2"
      [] OTHER -> "3"

(* _create_servicenow_incident: the create_incident call is issued *)
CreateIncidentCall(E) ==
    /\ pc = "create_incident"
    /\ IssueCall(E, "cmdb", "create_incident",
                 [hostname |-> alert.host,
                  short_description |-> analysis["summary"],
                  description |-> analysis["description"],
                  urgency |-> MapPriority(analysis["priority"]),
                  impact |-> MapPriority(analysis["priority"])],
                 TOOL_TIMEOUT)
    /\ pc' = "await_incident"
    /\ UNCHANGED <<alert, llm_available, outcome, logs, cmdb_data, owner_team,
                   llm_prompt, llm_reply, analysis, ticket, db_up, db_flips,
                   db_activity, db_tickets, scan>>
    /\ UNCHANGED <<mcp, suspended, now, start_time>>

(* _create_servicenow_incident: the call resolves; every exception is only *)
(* logged                                                                  *)
CreateIncidentResolve(E) ==
    /\ pc = "await_incident"
    /\ \E reply \in Resolutions(E, <<IncidentDoc, IncidentError>>) :
          LET res == StepResult(reply)
          IN IF res.ok
             THEN /\ db_activity' = LogActivity("ServiceNow Incident Created", "complete")
                  /\ outcome' = [outcome EXCEPT !["incident"] = "ok"]
             ELSE /\ db_activity' = LogActivity("ServiceNow Incident Creation", "error")
                  /\ outcome' = [outcome EXCEPT !["incident"] = res.err]
    /\ pc' = AfterLogActivity("save")
    /\ inflight' = NoCall
    /\ timer' = 0
    /\ UNCHANGED <<alert, llm_available, calls, logs, cmdb_data, owner_team,
                   llm_prompt, llm_reply, analysis, ticket, db_up, db_flips,
                   db_tickets, scan>>
    /\ UNCHANGED <<mcp, suspended, now, start_time>>

(* ticket ids already in table tickets, whose ticket_id column is unique *)
TicketIds == {db_tickets[i].ticket_id : i \in 1..Len(db_tickets)}

(* the record added to the session twice *)
SaveTicketRecordTwice ==
    /\ pc = "save"
    /\ IF db_up /\ ticket.ticket_id \notin TicketIds
       THEN /\ db_tickets' = Append(db_tickets,
                   [ticket_id |-> ticket.ticket_id, alert_id |-> alert.alert_id,
                    host |-> alert.host, severity |-> alert.severity,
                    priority |-> analysis["priority"],
                    summary |-> analysis["summary"],
                    description |-> analysis["description"],
                    assigned_to |-> ticket.assigned_to,
                    processing_time |-> ticket.processing_time,
                    status |-> "created"])
                   \o <<[ticket_id |-> ticket.ticket_id, alert_id |-> alert.alert_id,
                         host |-> alert.host, severity |-> alert.severity,
                         priority |-> analysis["priority"],
                         summary |-> analysis["summary"],
                         description |-> analysis["description"],
                         assigned_to |-> ticket.assigned_to, status |-> "created"]>>
            /\ outcome' = [outcome EXCEPT !["save"] = "ok"]
            /\ pc' = "returned"
       ELSE /\ db_tickets' = db_tickets
            /\ outcome' = [outcome EXCEPT !["save"] = "raise"]
            /\ pc' = "raised"
    /\ UNCHANGED <<alert, llm_available, inflight, timer, calls, logs, cmdb_data,
                   owner_team, llm_prompt, llm_reply, analysis, ticket, db_up,
                   db_flips, db_activity, scan>>
    /\ UNCHANGED <<mcp, suspended, now, start_time>>

(* _save_ticket_record and the return of process_alert: db.add/db.commit   *)
(* are not guarded, so a failed commit propagates to the caller            *)
SaveTicketRecord ==
    /\ pc = "save"
    /\ IF db_up /\ ticket.ticket_id \notin TicketIds
       THEN /\ db_tickets' = Append(db_tickets,
                   [ticket_id |-> ticket.ticket_id, alert_id |-> alert.alert_id,
                    host |-> alert.host, severity |-> alert.severity,
                    priority |-> analysis["priority"],
                    summary |-> analysis["summary"],
                    description |-> analysis["description"],
                    assigned_to |-> ticket.assigned_to,
                    processing_time |-> ticket.processing_time,
                    status |-> "created"])
            /\ outcome' = [outcome EXCEPT !["save"] = "ok"]
            /\ pc' = "returned"
       ELSE /\ db_tickets' = db_tickets
            /\ outcome' = [outcome EXCEPT !["save"] = "raise"]
            /\ pc' = "raised"
    /\ UNCHANGED <<alert, llm_available, inflight, timer, calls, logs, cmdb_data,
                   owner_team, llm_prompt, llm_reply, analysis, ticket, db_up,
                   db_flips, db_activity, scan>>
    /\ UNCHANGED <<mcp, suspended, now, start_time>>

-----------------------------------------------------------------------------
(* AITTAgent.scan_and_create_alerts *)

(* events of the search result; the keys _raw and _time are written raw    *)
(* and time, and a raw text is its sequence of words                       *)
RawFatal == <<"FATAL", "outage">>
RawHigh == <<"High", "load">>
RawMinor == <<"minor", "notice">>

Ev(h, raw) == [host |-> h, raw |-> raw, time |-> 1]
EvNoHost(raw) == [raw |-> raw, time |-> 1]

ScanEvents ==
    {Ev("h1", RawFatal), Ev("h1", RawHigh), Ev("h1", RawMinor),
     Ev("h2", RawHigh), EvNoHost(RawMinor)}

EventLists == UNION {[1..n -> ScanEvents] : n \in 0..MaxEvents}

TimeRanges == {"24h", "1h"}

CriticalKeywords == {"critical", "fatal", "panic", "outage"}
HighKeywords == {"high", "severe", "major"}

NoScan ==
    [pc |-> "idle", time_range |-> "none", search |-> NoCall, events |-> <<>>,
     idx |-> 1, hosts |-> EmptyDict, order |-> <<>>, next |-> 1,
     running |-> FALSE, started |-> <<>>, processed |-> <<>>,
     report |-> [status |-> "none"]]

(* the entry point: the search_recent call is issued *)
ScanStart(E) ==
    /\ scan.pc = "idle"
    /\ pc = "idle"
    /\ \E tr \in TimeRanges :
          LET args == [search_term |-> "index=* (error OR exception OR failed OR fatal OR timeout) | head 1000 | table _time, host, source, _raw",
                       time_range |-> "24h", max_results |-> 1000]
          IN /\ IssueCall(E, "splunk", "search_recent", args, SCAN_TIMEOUT)
             /\ scan' = [scan EXCEPT !.pc = "await_search", !.time_range = tr,
                                     !.search = [server |-> "splunk", tool |-> "search_recent",
                                                 args |-> args]]
    /\ UNCHANGED <<pc, alert, llm_available, outcome, logs, cmdb_data, owner_team,
                   llm_prompt, llm_reply, analysis, ticket, db_up, db_flips,
                   db_activity, db_tickets>>
    /\ UNCHANGED <<mcp, suspended, now, start_time>>

(* a scan that went on without events after a failed search *)
ScanFailedContinues(err) == [scan EXCEPT !.pc = "fold", !.events = <<>>]

(* the outer except of scan_and_create_alerts: the failed report *)
ScanFailed(err) ==
    [scan EXCEPT !.pc = "done",
                 !.report = [status |-> "failed", error |-> err,
                             scan_time_range |-> scan.time_range]]

(* the search call resolves: the events are kept, or the outer except      *)
(* returns the failed report                                               *)
ScanSearchResolve(E) ==
    /\ scan.pc = "await_search"
    /\ \E reply \in Resolutions(E, <<>>) \cup
                    (IF timer < inflight.timeout /\ inflight.responds
                     THEN {ReplyReturn(JsonText(Obj([results_count |-> Len(evs), results |-> evs])))
                             : evs \in EventLists}
                     ELSE {}) :
          LET res == StepResult(reply)
          IN IF res.ok
             THEN scan' = [scan EXCEPT !.pc = "fold",
                                       !.events = Get(res.val.o, "results", <<>>)]
             ELSE scan' = ScanFailed(res.err)
    /\ inflight' = NoCall
    /\ timer' = 0
    /\ UNCHANGED <<pc, alert, llm_available, calls, outcome, logs, cmdb_data,
                   owner_team, llm_prompt, llm_reply, analysis, ticket, db_up,
                   db_flips, db_activity, db_tickets>>
    /\ UNCHANGED <<mcp, suspended, now, start_time>>

(* the severity of a host after one more of its events *)
FoldSeverityResets(current, raw) ==
    IF \E kw \in CriticalKeywords : ContainsLower(raw, kw) THEN "Critical"
    ELSE IF \E kw \in HighKeywords : ContainsLower(raw, kw) THEN "High"
    ELSE "Medium"

FoldSeverity(current, raw) ==
    IF \E kw \in CriticalKeywords : ContainsLower(raw, kw) THEN "Critical"
    ELSE IF \E kw \in HighKeywords : ContainsLower(raw, kw) THEN "High"
    ELSE current

(* one iteration of the grouping loop; the raw texts of the model are      *)
(* shorter than the 200 and 100 characters the code cuts them to           *)
ScanFold ==
    /\ scan.pc = "fold"
    /\ scan.idx <= Len(scan.events)
    /\ LET event == scan.events[scan.idx]
           host == Get(event, "host", "unknown")
           raw == Get(event, "raw", <<>>)
           prev == IF host \in DOMAIN scan.hosts THEN scan.hosts[host]
                   ELSE [host |-> host, error_count |-> 0, messages |-> <<>>,
                         severity |-> "Medium",
                         latest_timestamp |-> Get(event, "time", 0)]
           new == [prev EXCEPT !.error_count = @ + 1,
                               !.messages = Append(@, raw),
                               !.severity = FoldSeverity(@, raw)]
       IN scan' = [scan EXCEPT
                     !.hosts = [h \in DOMAIN scan.hosts \cup {host} |->
                                  IF h = host THEN new ELSE scan.hosts[h]],
                     !.order = IF host \in DOMAIN scan.hosts THEN @ ELSE Append(@, host),
                     !.idx = @ + 1]
    /\ UNCHANGED <<pc, alert, llm_available, inflight, timer, calls, outcome, logs,
                   cmdb_data, owner_team, llm_prompt, llm_reply, analysis, ticket,
                   db_up, db_flips, db_activity, db_tickets>>
    /\ UNCHANGED <<mcp, suspended, now, start_time>>

(* the alert synthesized for a host *)
ScanAlert(host_data, time_range) ==
    [alert_id |-> "auto-scan-" \o host_data.host,
     severity |-> host_data.severity,
     message |-> [fmt |-> "scan", host |-> host_data.host,
                  error_count |-> host_data.error_count,
                  time_range |-> time_range,
                  latest |-> host_data.messages[Len(host_data.messages)]],
     host |-> host_data.host,
     timestamp |-> now,
     metadata |-> [scan_source |-> "splunk_auto_scan",
                   error_count |-> host_data.error_count,
                   time_range |-> time_range,
                   error_messages |-> Take(host_data.messages, 5)]]

(* the processing loop: process_alert is called for the next host *)
ScanRunHost ==
    /\ scan.pc = "fold"
    /\ scan.idx > Len(scan.events)
    /\ ~scan.running
    /\ scan.next <= Len(scan.order)
    /\ pc = "idle"
    /\ StartRun(ScanAlert(scan.hosts[scan.order[scan.next]], scan.time_range))
    /\ scan' = [scan EXCEPT !.running = TRUE,
                            !.started = Append(@, scan.order[scan.next])]
    /\ UNCHANGED <<llm_available, db_up, db_flips, db_tickets>>
    /\ UNCHANGED <<mcp, suspended, now>>

Reverse(s) == [i \in 1..Len(s) |-> s[Len(s) + 1 - i]]

(* the five latest activity rows of an alert, latest first *)
RecentActivity(alert_id) ==
    Take(Reverse(SelectSeq(db_activity, LAMBDA row : row.alert_id = alert_id)), 5)

(* the processing loop: process_alert returned or raised for the host; a   *)
(* failure is recorded and the loop goes on                                *)
ScanCollectAborts ==
    /\ scan.running
    /\ pc \in {"returned", "raised"}
    /\ IF pc = "returned" /\ db_up
       THEN LET host_data == scan.hosts[scan.order[scan.next]]
            IN scan' = [scan EXCEPT
                          !.processed = Append(@,
                              [alert_id |-> alert.alert_id, host |-> host_data.host,
                               severity |-> host_data.severity,
                               error_count |-> host_data.error_count,
                               ticket |-> ticket,
                               activity_log |-> RecentActivity(alert.alert_id),
                               status |-> "processed"]),
                          !.running = FALSE,
                          !.next = @ + 1]
       ELSE scan' = [scan EXCEPT !.pc = "done", !.running = FALSE,
                                 !.report = [status |-> "failed", error |-> "raise",
                                             scan_time_range |-> scan.time_range]]
    /\ pc' = "idle"
    /\ UNCHANGED <<alert, llm_available, inflight, timer, calls, outcome, logs,
                   cmdb_data, owner_team, llm_prompt, llm_reply, analysis, ticket,
                   db_up, db_flips, db_activity, db_tickets>>
    /\ UNCHANGED <<mcp, suspended, now, start_time>>

ScanCollect ==
    /\ scan.running
    /\ pc \in {"returned", "raised"}
    /\ LET host_data == scan.hosts[scan.order[scan.next]]
           entry == IF pc = "returned" /\ db_up
                    THEN [alert_id |-> alert.alert_id, host |-> host_data.host,
                          severity |-> host_data.severity,
                          error_count |-> host_data.error_count,
                          ticket |-> ticket,
                          activity_log |-> RecentActivity(alert.alert_id),
                          status |-> "processed"]
                    ELSE [alert_id |-> alert.alert_id, host |-> host_data.host,
                          severity |-> host_data.severity,
                          error_count |-> host_data.error_count,
                          status |-> "failed"]
       IN scan' = [scan EXCEPT !.processed = Append(@, entry),
                               !.running = FALSE,
                               !.next = @ + 1]
    /\ pc' = "idle"
    /\ UNCHANGED <<alert, llm_available, inflight, timer, calls, outcome, logs,
                   cmdb_data, owner_team, llm_prompt, llm_reply, analysis, ticket,
                   db_up, db_flips, db_activity, db_tickets>>
    /\ UNCHANGED <<mcp, suspended, now, start_time>>

CountEveryEntry(entries, status) == Len(entries)

(* len([a for a in processed_alerts if a["status"] == status]) *)
CountStatus(entries, status) ==
    Cardinality({i \in 1..Len(entries) : entries[i].status = status})

(* the completed report *)
ScanReport ==
    /\ scan.pc = "fold"
    /\ scan.idx > Len(scan.events)
    /\ ~scan.running
    /\ scan.next > Len(scan.order)
    /\ scan' = [scan EXCEPT
                  !.pc = "done",
                  !.report = [status |-> "completed",
                              scan_time_range |-> scan.time_range,
                              total_error_events |-> Len(scan.events),
                              affected_hosts |-> Cardinality(DOMAIN scan.hosts),
                              processed_alerts |-> CountStatus(scan.processed, "processed"),
                              failed_alerts |-> CountStatus(scan.processed, "failed"),
                              alerts |-> scan.processed]]
    /\ UNCHANGED <<pc, alert, llm_available, inflight, timer, calls, outcome, logs,
                   cmdb_data, owner_team, llm_prompt, llm_reply, analysis, ticket,
                   db_up, db_flips, db_activity, db_tickets>>
    /\ UNCHANGED <<mcp, suspended, now, start_time>>

-----------------------------------------------------------------------------
(* The MCP client manager: one list_tools or call_tool invocation at a     *)
(* time, each inside its own stdio_client session                          *)

MaxInvocations == 2
MaxClock == 3

(* self.servers, built by __init__: server name -> launch parameters *)
Registry ==
    [n \in {"splunk", "jira", "cmdb"} |->
        [command |-> "python", script |-> n \o "_server.py", env |-> n \o "-credentials"]]

(* the names the callers of the model pass; "ldap" is not registered *)
ServerNames == {"splunk", "jira", "cmdb", "ldap"}

(* every request built with the id of the initialize request *)
RequestWithInitializeId(id, method, params) ==
    [jsonrpc |-> "2.0", id |-> 1, method |-> method, params |-> params]

(* JSONRPCRequest(jsonrpc="2.0", id=..., method=..., params=...) *)
Request(id, method, params) ==
    [jsonrpc |-> "2.0", id |-> id, method |-> method, params |-> params]

(* What read_stream.receive() yields: resp.message.root is a response with *)
(* a result, an error response (no result attribute) or a notification     *)
(* (no id, no result)                                                      *)
Response(id, result) == [kind |-> "response", id |-> id, result |-> result]
ErrorResponse(id) == [kind |-> "error", id |-> id]
Notification == [kind |-> "notification"]
NoMessage == [kind |-> "none"]

(* entries of result.content *)
TextEntry(text) == [type |-> "text", text |-> text]
ImageEntry == [type |-> "image"]

(* the content lists a tools/call result carries in the model *)
ToolContents ==
    {<<>>,
     <<ImageEntry>>,
     <<TextEntry(JsonText(Obj(EmptyDict)))>>,
     <<[type |-> "text"]>>,
     <<ImageEntry, ImageEntry, TextEntry(GarbageText), TextEntry(JsonText(JArray))>>,
     <<TextEntry(JsonText(JArray)), ImageEntry, TextEntry(GarbageText)>>}

(* the tool descriptors of a tools/list result; the model keeps the first  *)
(* two descriptors of each server                                          *)
ServerTools ==
    LET Tool(name) == [name |-> name, description |-> name \o " tool",
                       inputSchema |-> [type |-> "object"]]
    IN  [n \in DOMAIN Registry |->
            IF n = "splunk" THEN <<Tool("query_logs"), Tool("search_recent")>>
            ELSE IF n = "jira" THEN <<Tool("create_ticket"), Tool("update_ticket")>>
            ELSE <<Tool("get_asset_info"), Tool("get_owner_team")>>]

(* text_blocks[0] replaced by text_blocks[-1] *)
LastTextBlock(text_blocks) == text_blocks[Len(text_blocks)]

FirstTextBlock(text_blocks) == text_blocks[1]

(* extract_text_content(resp) *)
ExtractTextContent(resp) ==
    LET result == IF resp.kind = "response" THEN resp.result ELSE EmptyDict
        content == Get(result, "content", <<>>)
        text_blocks == SelectSeq(content, LAMBDA c : Get(c, "type", "") = "text")
    IN  IF text_blocks = <<>>
        THEN Ok(NoneValue)
        ELSE Ok(Get(FirstTextBlock(text_blocks), "text", EmptyText))

(* servers.get(server_name, default) instead of servers[server_name] *)
LookupWithDefault(servers, server_name) ==
    IF server_name \in DOMAIN servers THEN Ok(servers[server_name]) ELSE Ok(servers["splunk"])

(* server_params = self.servers[server_name] *)
Lookup(servers, server_name) ==
    IF server_name \in DOMAIN servers THEN Ok(servers[server_name]) ELSE Raise("KeyError")

(* What a server process writes when it starts, before it serves any      *)
(* request, as far as credential values are concerned: the stream, the     *)
(* environment variable whose value is written and how much of it.        *)
(* splunk_server prints the password and logs the ends of the token,      *)
(* jira_server logs the ends of the token, cmdb_server writes neither.    *)
StartupWrites ==
    [n \in DOMAIN Registry |->
        IF n = "splunk"
        THEN {[stream |-> "stdout", variable |-> "SPLUNK_PASSWORD", part |-> "whole"],
              [stream |-> "log", variable |-> "SPLUNK_TOKEN", part |-> "first 10 and last 5"]}
        ELSE IF n = "jira"
        THEN {[stream |-> "log", variable |-> "JIRA_TOKEN", part |-> "first 10 and last 5"]}
        ELSE {}]

NoInvocation ==
    [pc |-> "idle", op |-> "none", server |-> "none", params |-> EmptyDict,
     servers |-> Registry, launch |-> EmptyDict,
     proc |-> "none", open |-> FALSE, eof |-> FALSE,
     invocations |-> 0, spawned |-> 0, closed |-> 0,
     sent |-> <<>>, answered |-> 0, stream |-> <<>>,
     init_reply |-> NoMessage, reply |-> NoMessage,
     result |-> [ok |-> FALSE, err |-> "pending"],
     peers |-> 0, cleaned |-> FALSE, written |-> {}]

agent_vars ==
    <<pc, alert, llm_available, inflight, timer, calls, outcome, logs, cmdb_data,
      owner_team, llm_prompt, llm_reply, analysis, ticket, db_up, db_flips,
      db_activity, db_tickets, scan, suspended, now, start_time>>

(* the session left open when the invocation ends *)
SessionLeak(m, result) == [m EXCEPT !.pc = "done", !.result = result]

(* Leaving the async with block of stdio_client, by return, by an          *)
(* exception or by cancellation: the context manager stops the child       *)
(* process and closes both streams                                         *)
SessionExit(m, result) ==
    [m EXCEPT !.pc = "done", !.result = result,
              !.proc = IF m.proc = "none" THEN "none" ELSE "terminated",
              !.closed = IF m.open THEN m.closed + 1 ELSE m.closed,
              !.open = FALSE, !.stream = <<>>]

(* The first statement of list_tools and of call_tool: the registry lookup *)
Begin(op, server_name, params) ==
    /\ LET m == [mcp EXCEPT !.op = op, !.server = server_name, !.params = params,
                            !.invocations = mcp.invocations + 1,
                            !.proc = "none", !.open = FALSE, !.eof = FALSE,
                            !.sent = <<>>, !.answered = 0, !.stream = <<>>,
                            !.init_reply = NoMessage, !.reply = NoMessage,
                            !.result = NoInvocation.result]
           server_params == Lookup(mcp.servers, server_name)
       IN  mcp' = IF server_params.ok
                  THEN [m EXCEPT !.pc = "enter", !.launch = server_params.val]
                  ELSE [m EXCEPT !.pc = "done", !.result = Raise(server_params.err)]
    /\ UNCHANGED agent_vars

(* the manager of the model serves one invocation after the other *)
ListTools ==
    /\ mcp.pc \in {"idle", "done"} /\ mcp.invocations < MaxInvocations
    /\ \E server_name \in ServerNames : Begin("list_tools", server_name, EmptyDict)

CallTool ==
    /\ mcp.pc \in {"idle", "done"} /\ mcp.invocations < MaxInvocations
    /\ \E server_name \in ServerNames :
          Begin("call_tool", server_name, [name |-> "a_tool", arguments |-> EmptyDict])

(* async with stdio_client(server_params): the child process starts, or    *)
(* the launch fails and the invocation raises                              *)
SessionEnter ==
    /\ mcp.pc = "enter"
    /\ \/ mcp' = [mcp EXCEPT !.pc = "initialize", !.proc = "running", !.open = TRUE,
                             !.spawned = mcp.spawned + 1,
                             !.written = mcp.written \cup StartupWrites[mcp.server]]
       \/ mcp' = [mcp EXCEPT !.pc = "done", !.result = Raise("OSError")]
    /\ UNCHANGED agent_vars

(* _initialize: write_stream.send(init_msg) *)
InitializeSend ==
    /\ mcp.pc = "initialize"
    /\ mcp' = [mcp EXCEPT !.pc = "await_initialize",
                          !.sent = Append(mcp.sent, Request(1, "initialize",
                                            [protocolVersion |-> "2024-11-05",
                                             clientInfo |-> "AITTA Client 0.1",
                                             capabilities |-> EmptyDict]))]
    /\ UNCHANGED agent_vars

(* _initialize: return await read_stream.receive(); the next message of    *)
(* the stream is taken, whatever it is; once the child is gone and the     *)
(* stream is empty, receive() raises anyio.EndOfStream                     *)
InitializeReceive ==
    /\ mcp.pc = "await_initialize"
    /\ \/ /\ mcp.stream # <<>>
          /\ mcp' = [mcp EXCEPT !.pc = "request", !.init_reply = Head(mcp.stream),
                                !.stream = Tail(mcp.stream)]
       \/ /\ mcp.stream = <<>> /\ mcp.eof
          /\ mcp' = SessionExit(mcp, Raise("EndOfStream"))
    /\ UNCHANGED agent_vars

(* write_stream.send(list_msg) with id 2, or send(call_msg) with id 3 *)
RequestSend ==
    /\ mcp.pc = "request"
    /\ mcp' = [mcp EXCEPT !.pc = "await_reply",
                          !.sent = Append(mcp.sent,
                                     IF mcp.op = "list_tools"
                                     THEN Request(2, "tools/list", EmptyDict)
                                     ELSE Request(3, "tools/call", mcp.params))]
    /\ UNCHANGED agent_vars

(* resp = await read_stream.receive(); return extract_text_content(resp) *)
ReplyReceive ==
    /\ mcp.pc = "await_reply"
    /\ \/ /\ mcp.stream # <<>>
          /\ mcp' = SessionExit([mcp EXCEPT !.reply = Head(mcp.stream)],
                                ExtractTextContent(Head(mcp.stream)))
       \/ /\ mcp.stream = <<>> /\ mcp.eof
          /\ mcp' = SessionExit(mcp, Raise("EndOfStream"))
    /\ UNCHANGED agent_vars

(* the task running the invocation is cancelled while it awaits *)
Cancel ==
    /\ mcp.pc \in {"enter", "initialize", "await_initialize", "request", "await_reply"}
    /\ mcp' = SessionExit(mcp, Raise("CancelledError"))
    /\ UNCHANGED agent_vars

(* what a server writes to its stdout for one request *)
ServerReplies(server_name, request) ==
    IF request.method = "initialize"
    THEN LET InitializeResult == [protocolVersion |-> "2024-11-05"]
         IN  {<<Response(request.id, InitializeResult)>>,
              <<Notification, Response(request.id, InitializeResult)>>,
              <<ErrorResponse(request.id)>>}
    ELSE IF request.method = "tools/list"
    THEN {<<Response(request.id, [tools |-> ServerTools[server_name]])>>,
          <<ErrorResponse(request.id)>>}
    ELSE {<<Response(request.id, [content |-> c])>> : c \in ToolContents}
         \cup {<<ErrorResponse(request.id)>>}

(* the child process answers the oldest request it has not answered *)
ServerAnswer ==
    /\ mcp.proc = "running"
    /\ mcp.answered < Len(mcp.sent)
    /\ \E msgs \in ServerReplies(mcp.server, mcp.sent[mcp.answered + 1]) :
          mcp' = [mcp EXCEPT !.answered = mcp.answered + 1,
                             !.stream = mcp.stream \o msgs]
    /\ UNCHANGED agent_vars

(* the child process exits on its own *)
ServerExit ==
    /\ mcp.proc = "running"
    /\ mcp' = [mcp EXCEPT !.proc = "exited", !.eof = TRUE]
    /\ UNCHANGED agent_vars

(* Other pipeline runs use the same manager while the invocation above is  *)
(* under way: each of their invocations starts with the registry lookup    *)
(* and ends some time later                                                *)
PeerInvocation ==
    /\ \/ /\ mcp.peers < MaxInvocations
          /\ \E server_name \in ServerNames :
                mcp' = [mcp EXCEPT !.peers =
                           IF Lookup(mcp.servers, server_name).ok THEN mcp.peers + 1
                           ELSE mcp.peers]
          /\ mcp'.peers # mcp.peers
       \/ /\ mcp.peers > 0
          /\ mcp' = [mcp EXCEPT !.peers = mcp.peers - 1]
    /\ UNCHANGED agent_vars

(* cleanup() with self.servers.clear() in it *)
CleanupClearsServers ==
    /\ ~mcp.cleaned
    /\ mcp' = [mcp EXCEPT !.cleaned = TRUE,
                          !.servers = [n \in {} |-> EmptyDict]]
    /\ UNCHANGED agent_vars

(* cleanup(): writes a log line, there is nothing to release *)
Cleanup ==
    /\ ~mcp.cleaned
    /\ mcp' = [mcp EXCEPT !.cleaned = TRUE]
    /\ UNCHANGED agent_vars

-----------------------------------------------------------------------------
(* The pipeline specification: one alert posted to the API *)

(* a row left in table tickets by an earlier run whose ticket had no id *)
PriorTicket ==
    [ticket_id |-> JIRA_PROJECT_KEY \o "-XXXX", alert_id |-> "a0", host |-> "h0",
     severity |-> "High", priority |-> "High",
     summary |-> [fmt |-> "llm"], description |-> [fmt |-> "llm"],
     assigned_to |-> DEFAULT_ASSIGNEE, processing_time |-> 0, status |-> "created"]

Init ==
    /\ pc = "idle"
    /\ alert = NoAlert
    /\ llm_available \in BOOLEAN
    /\ inflight = NoCall
    /\ timer = 0
    /\ calls = <<>>
    /\ outcome = [s \in Steps |-> "none"]
    /\ logs = <<>>
    /\ cmdb_data = Obj(EmptyDict)
    /\ owner_team = DEFAULT_OWNER_TEAM
    /\ llm_prompt = NoPrompt
    /\ llm_reply = NoReply
    /\ analysis = EmptyDict
    /\ ticket = NoTicket
    /\ db_up \in BOOLEAN
    /\ db_flips = 0
    /\ db_activity = <<>>
    /\ db_tickets \in {<<>>, <<PriorTicket>>}
    /\ scan = NoScan
    /\ mcp = NoInvocation
    /\ suspended = NoRun
    /\ now = 0
    /\ start_time = 0

Next ==
    \/ ProcessAlert
    \/ RetrieveLogsCall(FullEnv)
    \/ RetrieveLogsResolve(FullEnv)
    \/ EnrichCall(FullEnv)
    \/ EnrichResolve(FullEnv)
    \/ AnalyzeRuleBased
    \/ AnalyzeLlmCall
    \/ AnalyzeLlmReply(FullEnv)
    \/ CreateTicketCall(FullEnv)
    \/ CreateTicketResolve(FullEnv)
    \/ CreateIncidentCall(FullEnv)
    \/ CreateIncidentResolve(FullEnv)
    \/ SaveTicketRecord
    \/ Tick(FullEnv)
    \/ DbFlip

Spec == Init /\ [][Next]_vars

-----------------------------------------------------------------------------
(* The analysis specification: _analyze_incident applied to every          *)
(* combination of alert, log set and enrichment document                   *)

AnalysisLogs == {<<>>, TwoLogs, ManyLogs}

AnalysisCmdb ==
    {AssetHigh, AssetCritical, AssetUnknown, AssetLow, AssetNotFound,
     ErrorPayload, Obj(EmptyDict), JArray}

AnalysisInit ==
    /\ pc = "analyze"
    /\ alert \in AllAlerts
    /\ llm_available \in BOOLEAN
    /\ inflight = NoCall
    /\ timer = 0
    /\ logs \in AnalysisLogs
    /\ cmdb_data \in AnalysisCmdb
    /\ calls = <<[server |-> "splunk", tool |-> "query_logs",
                  args |-> [host |-> alert.host, time_range |-> "30m",
                            search_query |-> "(error OR exception OR failed)"]],
                 [server |-> "cmdb", tool |-> "get_asset_info",
                  args |-> [hostname |-> alert.host]]>>
    /\ outcome = [s \in Steps |->
                    IF s = "logs" THEN "ok"
                    ELSE IF s = "cmdb"
                         THEN (IF cmdb_data = JArray THEN "badshape"
                               ELSE IF cmdb_data = Obj(EmptyDict) THEN "raise"
                               ELSE "ok")
                    ELSE "none"]
    /\ owner_team = IF IsDict(cmdb_data)
                    THEN Get(cmdb_data.o, "owner_team", DEFAULT_OWNER_TEAM)
                    ELSE DEFAULT_OWNER_TEAM
    /\ llm_prompt = NoPrompt
    /\ llm_reply = NoReply
    /\ analysis = EmptyDict
    /\ ticket = NoTicket
    /\ db_up = TRUE
    /\ db_flips = 0
    /\ db_activity =
          <<[alert_id |-> alert.alert_id, action |-> "Alert Received", status |-> "processing"],
            [alert_id |-> alert.alert_id, action |-> "Logs Retrieved", status |-> "complete"],
            IF outcome["cmdb"] = "ok"
            THEN [alert_id |-> alert.alert_id, action |-> "Context Enriched", status |-> "complete"]
            ELSE [alert_id |-> alert.alert_id, action |-> "CMDB Query", status |-> "error"]>>
    /\ db_tickets = <<>>
    /\ scan = NoScan
    /\ mcp = NoInvocation
    /\ suspended = NoRun
    /\ now = 0
    /\ start_time = 0

AnalysisNext ==
    \/ AnalyzeRuleBased
    \/ AnalyzeLlmCall
    \/ AnalyzeLlmReply(FullEnv)

AnalysisSpec == AnalysisInit /\ [][AnalysisNext]_vars

-----------------------------------------------------------------------------
(* The scan specification: one call of scan_and_create_alerts *)

ScanInit ==
    /\ pc = "idle"
    /\ alert = NoAlert
    /\ llm_available \in BOOLEAN
    /\ inflight = NoCall
    /\ timer = 0
    /\ calls = <<>>
    /\ outcome = [s \in Steps |-> "none"]
    /\ logs = <<>>
    /\ cmdb_data = Obj(EmptyDict)
    /\ owner_team = DEFAULT_OWNER_TEAM
    /\ llm_prompt = NoPrompt
    /\ llm_reply = NoReply
    /\ analysis = EmptyDict
    /\ ticket = NoTicket
    /\ db_up \in BOOLEAN
    /\ db_flips = 0
    /\ db_activity = <<>>
    /\ db_tickets = <<>>
    /\ scan = NoScan
    /\ mcp = NoInvocation
    /\ suspended = NoRun
    /\ now = 0
    /\ start_time = 0

ScanNext ==
    \/ ScanStart(ScanEnv)
    \/ ScanSearchResolve(ScanEnv)
    \/ ScanFold
    \/ ScanRunHost
    \/ RetrieveLogsCall(ScanEnv)
    \/ RetrieveLogsResolve(ScanEnv)
    \/ EnrichCall(ScanEnv)
    \/ EnrichResolve(ScanEnv)
    \/ AnalyzeRuleBased
    \/ AnalyzeLlmCall
    \/ AnalyzeLlmReply(ScanEnv)
    \/ CreateTicketCall(ScanEnv)
    \/ CreateTicketResolve(ScanEnv)
    \/ CreateIncidentCall(ScanEnv)
    \/ CreateIncidentResolve(ScanEnv)
    \/ SaveTicketRecord
    \/ ScanCollect
    \/ ScanReport
    \/ Tick(ScanEnv)

ScanSpec == ScanInit /\ [][ScanNext]_vars

-----------------------------------------------------------------------------
(* The liveness specification: one alert, with backends that may stay      *)
(* silent.  The event loop keeps running, so the clock of an awaited call  *)
(* advances and a call that can resolve does resolve.                      *)

LiveEnv ==
    [faults |-> {ReplyRaise}, faulty |-> PipelineTools, responds |-> BOOLEAN,
     ndocs |-> 1, timed |-> PipelineTools,
     llm |-> {ProviderRaises, ProviderText(<<Json(LlmFull)>>), ProviderSilent}]

LiveNext ==
    \/ ProcessAlert
    \/ RetrieveLogsCall(LiveEnv)
    \/ RetrieveLogsResolve(LiveEnv)
    \/ EnrichCall(LiveEnv)
    \/ EnrichResolve(LiveEnv)
    \/ AnalyzeRuleBased
    \/ AnalyzeLlmCall
    \/ AnalyzeLlmReply(LiveEnv)
    \/ CreateTicketCall(LiveEnv)
    \/ CreateTicketResolve(LiveEnv)
    \/ CreateIncidentCall(LiveEnv)
    \/ CreateIncidentResolve(LiveEnv)
    \/ SaveTicketRecord
    \/ Tick(LiveEnv)

LiveSpec ==
    /\ Init
    /\ [][LiveNext]_vars
    /\ WF_vars(Tick(LiveEnv))
    /\ WF_vars(RetrieveLogsResolve(LiveEnv))
    /\ WF_vars(EnrichResolve(LiveEnv))
    /\ WF_vars(CreateTicketResolve(LiveEnv))
    /\ WF_vars(CreateIncidentResolve(LiveEnv))
    /\ WF_vars(AnalyzeLlmReply(LiveEnv))

-----------------------------------------------------------------------------
(* The pair specification: two alerts posted to the API, each processed by *)
(* its own AITTAgent in its own coroutine.  The event loop runs one        *)
(* coroutine at a time and changes coroutine only where the running one    *)
(* awaits or has ended; the tables and the manager are the same for both.  *)

PairEnv ==
    [faults |-> {ReplyRaise}, faulty |-> PipelineTools, responds |-> {TRUE},
     ndocs |-> 1, timed |-> {},
     llm |-> {ProviderRaises, ProviderText(<<Json(LlmFull)>>)}]

(* the locals of the running process_alert coroutine *)
RunLocals ==
    [pc |-> pc, alert |-> alert, inflight |-> inflight, timer |-> timer,
     calls |-> calls, outcome |-> outcome, logs |-> logs, cmdb_data |-> cmdb_data,
     owner_team |-> owner_team, llm_prompt |-> llm_prompt, llm_reply |-> llm_reply,
     analysis |-> analysis, ticket |-> ticket, start_time |-> start_time]

(* the logs kept on an object that both coroutines use *)
SwitchKeepsLogs ==
    /\ pc \in {"await_logs", "await_cmdb", "await_llm", "await_ticket",
               "await_incident", "returned", "raised"}
    /\ suspended.pc \notin {"returned", "raised"}
    /\ suspended' = RunLocals
    /\ pc' = suspended.pc
    /\ alert' = suspended.alert
    /\ inflight' = suspended.inflight
    /\ timer' = suspended.timer
    /\ calls' = suspended.calls
    /\ outcome' = suspended.outcome
    /\ logs' = logs
    /\ cmdb_data' = suspended.cmdb_data
    /\ owner_team' = suspended.owner_team
    /\ llm_prompt' = suspended.llm_prompt
    /\ llm_reply' = suspended.llm_reply
    /\ analysis' = suspended.analysis
    /\ ticket' = suspended.ticket
    /\ start_time' = suspended.start_time
    /\ UNCHANGED <<llm_available, db_up, db_flips, db_activity, db_tickets, scan, mcp,
                   now>>

(* The event loop leaves the running coroutine at an await, or after its   *)
(* end, and resumes the other one                                          *)
Switch ==
    /\ pc \in {"await_logs", "await_cmdb", "await_llm", "await_ticket",
               "await_incident", "returned", "raised"}
    /\ suspended.pc \notin {"returned", "raised"}
    /\ suspended' = RunLocals
    /\ pc' = suspended.pc
    /\ alert' = suspended.alert
    /\ inflight' = suspended.inflight
    /\ timer' = suspended.timer
    /\ calls' = suspended.calls
    /\ outcome' = suspended.outcome
    /\ logs' = suspended.logs
    /\ cmdb_data' = suspended.cmdb_data
    /\ owner_team' = suspended.owner_team
    /\ llm_prompt' = suspended.llm_prompt
    /\ llm_reply' = suspended.llm_reply
    /\ analysis' = suspended.analysis
    /\ ticket' = suspended.ticket
    /\ start_time' = suspended.start_time
    /\ UNCHANGED <<llm_available, db_up, db_flips, db_activity, db_tickets, scan, mcp,
                   now>>

(* the route /api/process-alert: the first post, then a post for another   *)
(* alert on another host                                                   *)
PairStart ==
    /\ pc = "idle"
    /\ StartRun(IF suspended.pc = "idle"
                THEN MkAlert("Critical", ShortMessage)
                ELSE [MkAlert("Medium", LongMessage) EXCEPT !.alert_id = "a2", !.host = "h2"])
    /\ UNCHANGED <<llm_available, db_up, db_flips, db_tickets, scan, mcp, suspended,
                   now>>

PairInit ==
    /\ pc = "idle"
    /\ alert = NoAlert
    /\ llm_available \in BOOLEAN
    /\ inflight = NoCall
    /\ timer = 0
    /\ calls = <<>>
    /\ outcome = [s \in Steps |-> "none"]
    /\ logs = <<>>
    /\ cmdb_data = Obj(EmptyDict)
    /\ owner_team = DEFAULT_OWNER_TEAM
    /\ llm_prompt = NoPrompt
    /\ llm_reply = NoReply
    /\ analysis = EmptyDict
    /\ ticket = NoTicket
    /\ db_up = TRUE
    /\ db_flips = 0
    /\ db_activity = <<>>
    /\ db_tickets = <<>>
    /\ scan = NoScan
    /\ mcp = NoInvocation
    /\ now = 0
    /\ start_time = 0
    /\ suspended = RunLocals

PairNext ==
    \/ PairStart
    \/ Switch
    \/ RetrieveLogsCall(PairEnv)
    \/ RetrieveLogsResolve(PairEnv)
    \/ EnrichCall(PairEnv)
    \/ EnrichResolve(PairEnv)
    \/ AnalyzeRuleBased
    \/ AnalyzeLlmCall
    \/ AnalyzeLlmReply(PairEnv)
    \/ CreateTicketCall(PairEnv)
    \/ CreateTicketResolve(PairEnv)
    \/ CreateIncidentCall(PairEnv)
    \/ CreateIncidentResolve(PairEnv)
    \/ SaveTicketRecord

PairSpec == PairInit /\ [][PairNext]_vars

-----------------------------------------------------------------------------
(* The timed specification: one alert processed while the wall clock       *)
(* advances, before the run and between its steps.                         *)

ClockTick ==
    /\ now < MaxClock
    /\ now' = now + 1
    /\ UNCHANGED <<pc, alert, llm_available, inflight, timer, calls, outcome, logs,
                   cmdb_data, owner_team, llm_prompt, llm_reply, analysis, ticket,
                   db_up, db_flips, db_activity, db_tickets, scan, mcp, suspended,
                   start_time>>

TimedNext ==
    \/ ClockTick
    \/ ProcessAlert
    \/ RetrieveLogsCall(PairEnv)
    \/ RetrieveLogsResolve(PairEnv)
    \/ EnrichCall(PairEnv)
    \/ EnrichResolve(PairEnv)
    \/ AnalyzeRuleBased
    \/ AnalyzeLlmCall
    \/ AnalyzeLlmReply(PairEnv)
    \/ CreateTicketCall(PairEnv)
    \/ CreateTicketResolve(PairEnv)
    \/ CreateIncidentCall(PairEnv)
    \/ CreateIncidentResolve(PairEnv)
    \/ SaveTicketRecord

TimedSpec == Init /\ [][TimedNext]_vars

-----------------------------------------------------------------------------
(* The mock specification: one alert processed against a Jira server that  *)
(* runs in mock mode or has no token; the other backends answer or raise.  *)
(* The run is followed up to the end of ticket creation.                   *)

MockNext ==
    \/ ProcessAlert
    \/ RetrieveLogsCall(PairEnv)
    \/ RetrieveLogsResolve(PairEnv)
    \/ EnrichCall(PairEnv)
    \/ EnrichResolve(PairEnv)
    \/ AnalyzeRuleBased
    \/ AnalyzeLlmCall
    \/ AnalyzeLlmReply(PairEnv)
    \/ CreateTicketCall(PairEnv)
    \/ CreateTicketResolveMock

MockSpec == Init /\ [][MockNext]_vars

-----------------------------------------------------------------------------
(* The client specification: invocations of list_tools and call_tool on    *)
(* one MCPClientManager, one after the other, against child processes that *)
(* answer, answer out of turn, or exit                                     *)

ClientInit ==
    /\ Init
    /\ llm_available = FALSE
    /\ db_up = TRUE
    /\ db_tickets = <<>>

ClientNext ==
    \/ ListTools
    \/ CallTool
    \/ SessionEnter
    \/ InitializeSend
    \/ InitializeReceive
    \/ RequestSend
    \/ ReplyReceive
    \/ Cancel
    \/ ServerAnswer
    \/ ServerExit
    \/ PeerInvocation
    \/ Cleanup

ClientSpec == ClientInit /\ [][ClientNext]_vars

-----------------------------------------------------------------------------
(* What a run has done so far, read off the calls it issued and the rows   *)
(* it wrote                                                                *)

(* a call of the tool was issued through mcp_manager.call_tool *)
CallIssued(tool) == \E i \in 1..Len(calls) : calls[i].tool = tool

(* the rows of table tickets written for the alert *)
TicketRows(alert_id) == {i \in 1..Len(db_tickets) : db_tickets[i].alert_id = alert_id}

-----------------------------------------------------------------------------
(* Claims about the pipeline *)

(* C1: if the jira create_ticket call of a run fails (it raises, exceeds   *)
(* its deadline, or returns empty or non-JSON text), process_alert raises  *)
(* to its caller, no cmdb create_incident call is issued in that run and   *)
(* no TicketRecord is persisted for the alert.                             *)
C1_TicketFailureIsFatal ==
    outcome["ticket"] \in {"raise", "timeout", "nocontent", "nonjson"} =>
        /\ pc = "raised"
        /\ ~CallIssued("create_incident")
        /\ TicketRows(alert.alert_id) = {}

C1_Witness ==
    /\ outcome["ticket"] = "timeout"
    /\ CallIssued("create_ticket")
    /\ pc = "raised"

(* C2: if the splunk query_logs call of a run fails (error, timeout or     *)
(* unparsable response), the run does not abort before ticket creation:    *)
(* once it is past the analysis step the jira create_ticket call has been  *)
(* issued, and the log set handed on is empty.                             *)
C2_LogsFailureStillCallsJira ==
    (/\ outcome["logs"] \in {"raise", "timeout", "nocontent", "nonjson", "badshape"}
     /\ pc \in {"await_ticket", "create_incident", "await_incident", "save",
                "returned", "raised"}) =>
        /\ logs = <<>>
        /\ CallIssued("create_ticket")

C4_AnalysisNeverRaises ==
    /\ pc = "raised" =>
          \/ outcome["ticket"] \in {"raise", "timeout", "nocontent", "nonjson",
                                    "badshape", "keyerror"}
          \/ outcome["save"] = "raise"
    /\ (/\ outcome["analysis"] # "none"
        /\ \/ ~IsDict(cmdb_data)
           \/ llm_reply = ProviderText(<<Json(JArray)>>)) =>
          /\ analysis["priority"] = alert.severity
          /\ analysis["description"] = [fmt |-> "raw", text |-> alert.message]
          /\ pc = "create_ticket" \/ CallIssued("create_ticket")

C4_Witness ==
    /\ llm_reply = ProviderText(<<Json(JArray)>>)
    /\ outcome["analysis"] = "minimal"
    /\ alert.severity = "Critical"
    /\ pc = "await_ticket"

(* C5: with the LLM strategy active, whenever the provider call raises or  *)
(* its text is not JSON (prose, or prose inside code fences), the analysis *)
(* result is exactly what _rule_based_analysis returns for the same alert, *)
(* logs and enrichment data.                                               *)
C5_LlmFailureEqualsRuleBased ==
    (/\ llm_available
     /\ llm_reply \in {ProviderRaises, ProviderText(<<Prose>>),
                       ProviderText(<<FenceJson, Prose, Fence>>)}) =>
        /\ outcome["analysis"] \in {"llm_raise", "llm_unparsable"}
        /\ Obj(analysis) = RuleBasedAnalysis(alert, logs, cmdb_data).val

C5_Witness ==
    /\ llm_reply = ProviderText(<<FenceJson, Prose, Fence>>)
    /\ logs = ManyLogs
    /\ cmdb_data = AssetCritical
    /\ outcome["analysis"] = "llm_unparsable"

(* C6: if the cmdb create_incident call fails (error or timeout) in a run  *)
(* whose ticket was created, the run still persists the TicketRecord and   *)
(* returns the ticket to the caller.                                       *)
C6_IncidentFailureStillReturns ==
    (/\ outcome["ticket"] = "ok"
     /\ outcome["incident"] \in {"raise", "timeout"}
     /\ pc \in {"returned", "raised"}) =>
        /\ pc = "returned"
        /\ \E i \in TicketRows(alert.alert_id) :
              db_tickets[i].ticket_id = ticket.ticket_id

(* C7: ticket creation is the only step whose failure makes process_alert  *)
(* fail: whenever the jira create_ticket step succeeded, the finished run  *)
(* returned the ticket, whatever failed in log retrieval, enrichment,      *)
(* analysis, incident creation, activity logging or persistence.           *)
C7_OnlyTicketCreationIsFatal ==
    (outcome["ticket"] = "ok" /\ pc \in {"returned", "raised"}) =>
        pc = "returned" /\ ticket # NoTicket

(* C8: a tool call whose backend never responds does not hang the run: in  *)
(* each of the four tool-call steps the awaited call eventually resolves   *)
(* as a timeout, after which the run continues (log retrieval, enrichment, *)
(* incident creation) or fails (ticket creation).                          *)
C8_SilentBackendTimesOut ==
    /\ (pc = "await_logs" /\ ~inflight.responds)
          ~> (outcome["logs"] = "timeout" /\ pc = "enrich")
    /\ (pc = "await_cmdb" /\ ~inflight.responds)
          ~> (outcome["cmdb"] = "timeout" /\ pc = "analyze")
    /\ (pc = "await_ticket" /\ ~inflight.responds)
          ~> (outcome["ticket"] = "timeout" /\ pc = "raised")
    /\ (pc = "await_incident" /\ ~inflight.responds)
          ~> (outcome["incident"] = "timeout" /\ pc = "save")

C8_Witness ==
    /\ outcome["logs"] = "timeout"
    /\ outcome["cmdb"] = "timeout"
    /\ outcome["incident"] = "timeout"
    /\ pc = "save"

(* C9: for every pair (alert severity, asset criticality), the priority    *)
(* of _rule_based_analysis is Critical for (Critical, High), High for      *)
(* (Critical, Medium) and (High, High), Medium for (High, Medium) and      *)
(* (Medium, High), and Medium for every other pair, a missing criticality  *)
(* counting as Medium.                                                     *)
C9_PriorityTable ==
    outcome["analysis"] \in {"rule", "llm_raise", "llm_unparsable"} =>
        LET severity == alert.severity
            criticality == IF "criticality" \in DOMAIN cmdb_data.o
                           THEN cmdb_data.o["criticality"] ELSE "Medium"
        IN analysis["priority"] =
              CASE severity = "Critical" /\ criticality = "High" -> "Critical"
                [] severity = "Critical" /\ criticality = "Medium" -> "High"
                [] severity = "High" /\ criticality = "High" -> "High"
                [] severity = "High" /\ criticality = "Medium" -> "Medium"
                [] severity = "Medium" /\ criticality = "High" -> "Medium"
                [] OTHER -> "Medium"

C9_Witness ==
    /\ outcome["analysis"] = "rule"
    /\ alert.severity = "Critical"
    /\ cmdb_data = AssetHigh
    /\ analysis["priority"] = "Critical"

-----------------------------------------------------------------------------
(* Claims about the batch scanner *)

SeverityRank(severity) ==
    CASE severity = "Critical" -> 3
      [] severity = "High" -> 2
      [] OTHER -> 1

(* C10: while the events are folded into the aggregates, the severity of a *)
(* host never decreases in the order Medium < High < Critical.             *)
C10_SeverityNeverDecreases ==
    [][\A h \in DOMAIN scan.hosts \cap DOMAIN scan'.hosts :
          SeverityRank(scan'.hosts[h].severity) >= SeverityRank(scan.hosts[h].severity)]_vars

(* C11: in the batch scan, an event whose raw message contains none of the *)
(* escalation keywords leaves the severity of its host's aggregate         *)
(* unchanged; a host whose events are "FATAL outage" followed by "minor    *)
(* notice" ends with severity Critical.                                    *)
C11_PlainEventKeepsSeverity ==
    /\ [][(/\ scan.pc = "fold"
           /\ scan'.idx = scan.idx + 1
           /\ \A i \in 1..Len(scan.events[scan.idx].raw) :
                 Lower(scan.events[scan.idx].raw[i]) \notin
                    {"critical", "fatal", "panic", "outage", "high", "severe", "major"}) =>
             LET h == IF "host" \in DOMAIN scan.events[scan.idx]
                      THEN scan.events[scan.idx].host ELSE "unknown"
             IN scan'.hosts[h].severity =
                   IF h \in DOMAIN scan.hosts THEN scan.hosts[h].severity ELSE "Medium"]_vars
    /\ []((/\ scan.events = <<Ev("h1", RawFatal), Ev("h1", RawMinor)>>
           /\ scan.idx = 3) => scan.hosts["h1"].severity = "Critical")

C11_Witness ==
    /\ scan.events = <<Ev("h1", RawFatal), Ev("h1", RawMinor)>>
    /\ scan.idx = 3
    /\ scan.hosts["h1"].severity = "Critical"
    /\ scan.hosts["h1"].error_count = 2

(* C12: in every completed scan report, processed_alerts + failed_alerts   *)
(* = affected_hosts = the number of distinct hosts among the returned      *)
(* events (an event without a host counting for the host "unknown"), and   *)
(* total_error_events is the number of returned events.                    *)
C12_ReportCounts ==
    scan.report.status = "completed" =>
        /\ scan.report.processed_alerts + scan.report.failed_alerts
              = scan.report.affected_hosts
        /\ scan.report.affected_hosts =
              Cardinality({IF "host" \in DOMAIN scan.events[i]
                           THEN scan.events[i].host ELSE "unknown" :
                           i \in 1..Len(scan.events)})
        /\ scan.report.total_error_events = Len(scan.events)

C12_Witness ==
    /\ scan.report.status = "completed"
    /\ scan.report.processed_alerts = 1
    /\ scan.report.failed_alerts = 1
    /\ scan.report.total_error_events = 2

(* C13: the scan starts exactly one pipeline run for every affected host,  *)
(* in the order the hosts were first seen; a run that fails is recorded as *)
(* failed for that host, and the runs of the hosts that follow still take  *)
(* place: a scan whose search succeeded ends with a run started for every  *)
(* host.                                                                   *)
C13_OneRunPerHost ==
    /\ [](/\ Len(scan.started) <= Len(scan.order)
          /\ \A i \in 1..Len(scan.started) : scan.started[i] = scan.order[i]
          /\ \A i, j \in 1..Len(scan.started) :
                scan.started[i] = scan.started[j] => i = j
          /\ Len(scan.order) = Cardinality(DOMAIN scan.hosts)
          /\ (scan.pc = "done" /\ scan.report.status = "completed") =>
                /\ scan.started = scan.order
                /\ Len(scan.processed) = Len(scan.order)
          /\ (scan.pc = "done" /\ scan.order # <<>>) =>
                scan.report.status = "completed")
    /\ [][(scan.running /\ pc = "raised" /\ scan' # scan) =>
             /\ Len(scan'.processed) = Len(scan.processed) + 1
             /\ scan'.processed[Len(scan'.processed)].status = "failed"
             /\ scan'.processed[Len(scan'.processed)].host = alert.host
             /\ scan'.pc = "fold"]_vars

C13_Witness ==
    /\ scan.pc = "done"
    /\ Len(scan.processed) = 2
    /\ scan.processed[1].status = "failed"
    /\ scan.processed[2].status = "processed"
    /\ scan.started = <<"h1", "h2">>

-----------------------------------------------------------------------------
(* What an ended invocation consumed as the reply to its request *)

ReplyContent ==
    IF mcp.reply.kind = "response" THEN Get(mcp.reply.result, "content", <<>>) ELSE <<>>

HasTextEntry(content) == \E i \in 1..Len(content) : content[i].type = "text"

(* C14: every invocation of list_tools or call_tool opens a session of its *)
(* own with one child process, and when the invocation ends, by return,    *)
(* by an exception or by cancellation, that process is stopped and its     *)
(* streams are closed.                                                     *)
C14_SessionPerInvocation ==
    /\ [](/\ mcp.spawned <= mcp.invocations
          /\ mcp.spawned - mcp.closed = (IF mcp.open THEN 1 ELSE 0)
          /\ mcp.pc \in {"idle", "done"} =>
                /\ mcp.proc \in {"none", "terminated"}
                /\ ~mcp.open
                /\ mcp.stream = <<>>)
    /\ [][mcp'.spawned # mcp.spawned =>
             /\ mcp'.spawned = mcp.spawned + 1
             /\ mcp.pc = "enter" /\ mcp.proc = "none" /\ ~mcp.open]_vars

C14_Witness ==
    /\ mcp.pc = "done"
    /\ mcp.result = Raise("CancelledError")
    /\ mcp.proc = "terminated"
    /\ mcp.sent # <<>>
    /\ mcp.invocations = 2 /\ mcp.spawned = 2 /\ mcp.closed = 2

(* C15: when the tools/call response has no content entry of type text,    *)
(* call_tool fails with an error; it never returns None or an empty value  *)
(* to its caller.                                                          *)
C15_NoTextEntryRaises ==
    (/\ mcp.pc = "done" /\ mcp.op = "call_tool"
     /\ mcp.reply.kind = "response" /\ mcp.reply.id = 3
     /\ ~HasTextEntry(ReplyContent))
        => ~mcp.result.ok

(* C16: call_tool returns, unchanged, the text of the first entry of type  *)
(* text of the content, in content order, whatever entries of other types  *)
(* precede it.                                                             *)
C16_FirstTextVerbatim ==
    (/\ mcp.pc = "done" /\ mcp.op = "call_tool"
     /\ HasTextEntry(ReplyContent))
        => LET first == CHOOSE i \in 1..Len(ReplyContent) :
                           /\ ReplyContent[i].type = "text"
                           /\ \A j \in 1..(i - 1) : ReplyContent[j].type # "text"
           IN  "text" \in DOMAIN ReplyContent[first]
                  => mcp.result = Ok(ReplyContent[first].text)

C16_Witness ==
    /\ mcp.pc = "done" /\ mcp.op = "call_tool"
    /\ ReplyContent = <<ImageEntry, ImageEntry, TextEntry(GarbageText), TextEntry(JsonText(JArray))>>
    /\ mcp.result = Ok(GarbageText)

(* C17: list_tools on a registered server returns the tool descriptors of  *)
(* the tools/list response of the server, in their order.                  *)
C17_ListToolsReturnsDescriptors ==
    (/\ mcp.pc = "done" /\ mcp.op = "list_tools"
     /\ mcp.server \in DOMAIN mcp.servers
     /\ mcp.reply = Response(2, [tools |-> ServerTools[mcp.server]]))
        => mcp.result = Ok([t |-> "list", items |-> ServerTools[mcp.server]])

(* C18: list_tools and call_tool with a server name that is not registered *)
(* fail with the error of the registry lookup before any process is        *)
(* started and before any message is sent.                                 *)
C18_UnknownServerFailsFirst ==
    /\ []((mcp.op # "none" /\ mcp.server \notin DOMAIN mcp.servers) =>
             /\ mcp.pc = "done"
             /\ mcp.result = Raise("KeyError")
             /\ mcp.proc = "none" /\ ~mcp.open
             /\ mcp.sent = <<>>)
    /\ [][mcp'.server \notin DOMAIN mcp.servers => mcp'.spawned = mcp.spawned]_vars

C18_Witness ==
    /\ mcp.op = "call_tool" /\ mcp.server = "ldap"
    /\ mcp.result = Raise("KeyError")
    /\ mcp.sent = <<>>
    /\ mcp.invocations = 2 /\ mcp.spawned = 1

(* C19: every step of a run that has executed (receipt, log retrieval,     *)
(* enrichment, analysis, ticket creation, incident creation) has appended  *)
(* at least one activity entry for the alert, whether the step succeeded   *)
(* or failed; stated of runs during which the database accepted every      *)
(* commit.                                                                 *)
C19_EveryStepLogs ==
    LET StepActions ==
            [s \in Steps \ {"save"} |->
                IF s = "logs" THEN {"Logs Retrieved", "Logs Retrieval"}
                ELSE IF s = "cmdb" THEN {"Context Enriched", "CMDB Query"}
                ELSE IF s = "analysis" THEN {"Analysis Complete", "Analysis"}
                ELSE IF s = "ticket" THEN {"Ticket Created", "Ticket Creation"}
                ELSE {"ServiceNow Incident Created", "ServiceNow Incident Creation"}]
        Logged(actions) ==
            \E i \in 1..Len(db_activity) :
                /\ db_activity[i].alert_id = alert.alert_id
                /\ db_activity[i].action \in actions
    IN  (db_up /\ db_flips = 0 /\ pc # "idle") =>
            /\ Logged({"Alert Received"})
            /\ \A s \in Steps \ {"save"} : outcome[s] # "none" => Logged(StepActions[s])

(* C20: one run produces at most one analysis result and persists at most  *)
(* one ticket record, and persists it only after the ticket creation step  *)
(* has succeeded.                                                          *)
C20_OneAnalysisOneTicketRecord ==
    /\ [](pc # "idle" =>
             /\ Cardinality(TicketRows(alert.alert_id)) <= 1
             /\ TicketRows(alert.alert_id) # {} =>
                   /\ outcome["ticket"] = "ok"
                   /\ outcome["analysis"] # "none"
                   /\ \A i \in TicketRows(alert.alert_id) :
                         db_tickets[i].ticket_id = ticket.ticket_id)
    /\ [][outcome["analysis"] # "none" =>
             analysis' = analysis /\ outcome'["analysis"] = outcome["analysis"]]_vars
    /\ [][db_tickets' # db_tickets =>
             /\ pc = "save" /\ outcome["ticket"] = "ok"
             /\ Len(db_tickets') = Len(db_tickets) + 1
             /\ SubSeq(db_tickets', 1, Len(db_tickets)) = db_tickets]_vars

C20_Witness ==
    /\ pc = "returned"
    /\ outcome["ticket"] = "ok"
    /\ outcome["analysis"] = "minimal"
    /\ Len(db_tickets) = 2
    /\ Cardinality(TicketRows(alert.alert_id)) = 1

(* C21: once the manager is constructed its registry holds exactly the     *)
(* servers splunk, jira and cmdb, and no list_tools, call_tool or cleanup  *)
(* call, whichever runs issue them and however they interleave, adds,      *)
(* removes or changes an entry.                                            *)
C21_RegistryReadOnly ==
    /\ [](DOMAIN mcp.servers = {"splunk", "jira", "cmdb"})
    /\ [][mcp'.servers = mcp.servers]_vars

C21_Witness ==
    /\ mcp.cleaned
    /\ mcp.peers > 0
    /\ mcp.invocations = MaxInvocations
    /\ mcp.pc = "await_reply"
    /\ DOMAIN mcp.servers = {"splunk", "jira", "cmdb"}

(* C22: when two runs for different alerts interleave at their awaits,     *)
(* each run's activity entries, analysis and ticket are what the run's own *)
(* alert and the replies to its own calls determine, as in a run alone:    *)
(* no step of one run changes the locals or the rows of the other, and     *)
(* what a run holds is computed from its own alert, logs and enrichment.   *)
C22_RunsDoNotInterfere ==
    /\ [](LET Rows(table, r) == SelectSeq(table, LAMBDA row : row.alert_id = r.alert.alert_id)
               Entry(how, done, failed) ==
                   IF how = "none" THEN <<>> ELSE IF how = "ok" THEN <<done>> ELSE <<failed>>
               Expected(o) ==
                   <<"Alert Received">>
                   \o Entry(o["logs"], "Logs Retrieved", "Logs Retrieval")
                   \o Entry(o["cmdb"], "Context Enriched", "CMDB Query")
                   \o (IF o["analysis"] \in {"none", "minimal"} THEN <<>> ELSE <<"Analysis Complete">>)
                   \o Entry(o["ticket"], "Ticket Created", "Ticket Creation")
                   \o Entry(o["incident"], "ServiceNow Incident Created", "ServiceNow Incident Creation")
               Alone(r) ==
                   /\ [i \in 1..Len(Rows(db_activity, r)) |-> Rows(db_activity, r)[i].action]
                         = Expected(r.outcome)
                   /\ r.outcome["logs"] # "ok" => r.logs = <<>>
                   /\ r.outcome["cmdb"] # "ok" => r.cmdb_data = Obj(EmptyDict)
                   /\ \A i \in 1..Len(r.calls) :
                         /\ "host" \in DOMAIN r.calls[i].args => r.calls[i].args.host = r.alert.host
                         /\ "hostname" \in DOMAIN r.calls[i].args => r.calls[i].args.hostname = r.alert.host
                   /\ r.outcome["analysis"] = "none" => r.analysis = EmptyDict
                   /\ r.outcome["analysis"] = "minimal" => r.analysis = MinimalAnalysis(r.alert)
                   /\ r.outcome["analysis"] = "rule" =>
                         Obj(r.analysis) = RuleBasedAnalysis(r.alert, r.logs, r.cmdb_data).val
                   /\ r.outcome["analysis"] \in {"llm", "llm_raise", "llm_unparsable"} =>
                         Obj(r.analysis) = LlmAnalysis(r.alert, r.logs, r.cmdb_data, r.llm_reply).val
                   /\ r.outcome["ticket"] = "ok" =>
                         /\ r.ticket.priority = r.analysis["priority"]
                         /\ r.ticket.summary = r.analysis["summary"]
                         /\ r.ticket.description = r.analysis["description"]
                   /\ r.outcome["ticket"] # "ok" => r.ticket = NoTicket
                   /\ Len(Rows(db_tickets, r)) <= 1
                   /\ \A i \in 1..Len(Rows(db_tickets, r)) :
                         /\ Rows(db_tickets, r)[i].ticket_id = r.ticket.ticket_id
                         /\ Rows(db_tickets, r)[i].host = r.alert.host
                         /\ Rows(db_tickets, r)[i].summary = r.analysis["summary"]
          IN  /\ pc # "idle" => Alone(RunLocals)
              /\ suspended.pc \notin {"idle", "none"} => Alone(suspended))
    /\ [][LET Rows(table, r) == SelectSeq(table, LAMBDA row : row.alert_id = r.alert.alert_id)
          IN  /\ suspended' = suspended =>
                    /\ Rows(db_activity', suspended) = Rows(db_activity, suspended)
                    /\ Rows(db_tickets', suspended) = Rows(db_tickets, suspended)
              /\ suspended' # suspended =>
                    /\ suspended' = RunLocals
                    /\ db_activity' = db_activity /\ db_tickets' = db_tickets]_vars

C22_Witness ==
    /\ pc = "returned"
    /\ suspended.pc = "returned"
    /\ alert.alert_id = "a1"
    /\ suspended.alert.alert_id = "a2"
    /\ Len(db_tickets) = 2
    /\ \E i, j \in 1..Len(db_activity) :
          /\ i < j
          /\ db_activity[i].alert_id = "a2" /\ db_activity[i].action = "Logs Retrieved"
          /\ db_activity[j].alert_id = "a1" /\ db_activity[j].action = "Logs Retrieved"

(* C23: the credential values of a tool backend reach only the environment *)
(* of its child process: nothing writes a credential value, whole or in    *)
(* part, to a log or to an output stream.                                  *)
C23_NoCredentialWritten == mcp.written = {}

(* C24: the message that list_tools or call_tool takes as the reply to a   *)
(* request is the response carrying the id of that request; a message with *)
(* another id or with no id is never taken as the reply.                   *)
C24_ReplyCarriesRequestId ==
    /\ mcp.init_reply # NoMessage =>
          /\ mcp.init_reply.kind \in {"response", "error"}
          /\ mcp.init_reply.id = mcp.sent[1].id
    /\ mcp.reply # NoMessage =>
          /\ mcp.reply.kind \in {"response", "error"}
          /\ mcp.reply.id = mcp.sent[2].id

(* C25: in every session the initialize request is sent first, and the     *)
(* tools/list or tools/call request is sent only after a successful        *)
(* response to that initialize request has been received on the session.   *)
C25_RequestAfterSuccessfulInitialize ==
    /\ mcp.sent # <<>> => mcp.sent[1].method = "initialize"
    /\ Len(mcp.sent) >= 2 =>
          /\ mcp.sent[2].method \in {"tools/list", "tools/call"}
          /\ mcp.init_reply.kind = "response"
          /\ mcp.init_reply.id = mcp.sent[1].id

(* C26: the requests sent on one session carry pairwise distinct ids. *)
C26_RequestIdsDistinct ==
    \A i, j \in 1..Len(mcp.sent) : i # j => mcp.sent[i].id # mcp.sent[j].id

C26_Witness ==
    /\ Len(mcp.sent) = 2
    /\ mcp.sent[1].id = 1
    /\ mcp.sent[2].id = 3
    /\ mcp.invocations = 2
    /\ mcp.pc = "done"

(* C27: in every tool-call step the expiry of the deadline has the effect  *)
(* of a raised tool error: the step that follows, the data passed on and   *)
(* the activity entry are the same function of the state before the step,  *)
(* whichever of the two ended the call; log retrieval, enrichment and the  *)
(* secondary incident go on, ticket creation ends the run.                 *)
C27_TimeoutIsToolError ==
    [][LET Failed(at, step) ==
               /\ pc = at
               /\ pc' # at
               /\ timer >= inflight.timeout \/ outcome'[step] = "raise"
       IN /\ Failed("await_logs", "logs") =>
                /\ pc' = "enrich"
                /\ logs' = <<>>
                /\ db_activity' = LogActivity("Logs Retrieval", "error")
          /\ Failed("await_cmdb", "cmdb") =>
                /\ pc' = "analyze"
                /\ cmdb_data' = Obj(EmptyDict)
                /\ owner_team' = DEFAULT_OWNER_TEAM
                /\ db_activity' = LogActivity("CMDB Query", "error")
          /\ Failed("await_ticket", "ticket") =>
                /\ pc' = "raised"
                /\ ticket' = NoTicket
                /\ db_activity' = LogActivity("Ticket Creation", "error")
          /\ Failed("await_incident", "incident") =>
                /\ pc' = "save"
                /\ ticket' = ticket
                /\ db_activity' = LogActivity("ServiceNow Incident Creation", "error")]_vars

C27_Witness ==
    /\ pc = "raised"
    /\ outcome["logs"] = "timeout"
    /\ outcome["cmdb"] = "raise"
    /\ outcome["ticket"] = "timeout"
    /\ logs = <<>>
    /\ cmdb_data = Obj(EmptyDict)

(* C28: the steps of a run finish in the order logs, enrichment, analysis, *)
(* ticket, secondary incident, persistence; the tool calls are issued in   *)
(* the order query_logs, get_asset_info, create_ticket, create_incident,   *)
(* each one only when no call of the run is in flight and every earlier    *)
(* step has finished.                                                      *)
C28_StepsInFixedOrder ==
    /\ [](LET StepOrder == <<"logs", "cmdb", "analysis", "ticket", "incident", "save">>
              ToolOrder == <<"query_logs", "get_asset_info", "create_ticket", "create_incident">>
          IN /\ \A i, j \in 1..Len(StepOrder) :
                    i < j /\ outcome[StepOrder[j]] # "none" => outcome[StepOrder[i]] # "none"
             /\ Len(calls) <= Len(ToolOrder)
             /\ \A i \in 1..Len(calls) : calls[i].tool = ToolOrder[i]
             /\ inflight # NoCall =>
                    /\ Len(calls) > 0
                    /\ inflight.tool = calls[Len(calls)].tool)
    /\ [][LET StepOf == [query_logs |-> 1, get_asset_info |-> 2,
                         create_ticket |-> 4, create_incident |-> 5]
              StepOrder == <<"logs", "cmdb", "analysis", "ticket", "incident", "save">>
          IN Len(calls') > Len(calls) =>
                /\ inflight = NoCall
                /\ Len(calls') = Len(calls) + 1
                /\ \A i \in 1..Len(StepOrder) :
                      outcome[StepOrder[i]] # "none" <=> i < StepOf[calls'[Len(calls')].tool]]_vars

C28_Witness ==
    /\ pc = "returned"
    /\ Len(calls) = 4
    /\ calls[4].tool = "create_incident"
    /\ inflight = NoCall
    /\ outcome["analysis"] = "llm"
    /\ outcome["save"] = "ok"

(* C29: an analysis that has left the analysis step holds a priority, a   *)
(* summary and a description, and ticket creation never fails on a missing *)
(* analysis field.                                                         *)
C29_AnalysisHasTicketFields ==
    /\ outcome["analysis"] # "none" =>
           {"priority", "summary", "description"} \subseteq DOMAIN analysis
    /\ outcome["ticket"] # "keyerror"

(* C30: a run whose provider never answers does not hang in the analysis *)
(* step: while it waits for the provider a step of the run stays possible, *)
(* the expiry of the analysis deadline that leads to the fallback and on   *)
(* to ticket creation.                                                     *)
C30_SilentProviderFallsBack ==
    (pc = "await_llm" /\ llm_reply = ProviderSilent) => ENABLED <<LiveNext>>_vars

C32_ActivityAppendOnly ==
    /\ [][/\ Len(db_activity') >= Len(db_activity)
          /\ SubSeq(db_activity', 1, Len(db_activity)) = db_activity]_vars
    /\ [](LET StepRank(action) ==
                  CASE action = "Alert Received" -> 0
                    [] action \in {"Logs Retrieved", "Logs Retrieval"} -> 1
                    [] action \in {"Context Enriched", "CMDB Query"} -> 2
                    [] action = "Analysis Complete" -> 3
                    [] action \in {"Ticket Created", "Ticket Creation"} -> 4
                    [] action \in {"ServiceNow Incident Created",
                                   "ServiceNow Incident Creation"} -> 5
                    [] OTHER -> 6
          IN \A i, j \in 1..Len(db_activity) :
                i < j /\ db_activity[i].alert_id = db_activity[j].alert_id =>
                   StepRank(db_activity[i].action) < StepRank(db_activity[j].action))

C32_Witness ==
    /\ scan.pc = "done"
    /\ Len(db_activity) >= 10
    /\ \E i, j \in 1..Len(db_activity) :
          /\ i < j
          /\ db_activity[i].alert_id # db_activity[j].alert_id
          /\ db_activity[i].action = "ServiceNow Incident Created"
          /\ db_activity[j].action = "Ticket Creation"

C34_ErrorPayloadIsError ==
    LET IsErrorPayload(doc) == IsDict(doc) /\ "error" \in DOMAIN doc.o
    IN /\ ~IsErrorPayload(cmdb_data)
       /\ \A i \in 1..Len(db_activity) :
             db_activity[i].action = "Context Enriched" => ~IsErrorPayload(cmdb_data)

(* C35: against a Jira server in mock mode or without a token, every       *)
(* create_ticket call of a run is answered with the mock ticket record and *)
(* the run accepts it: the step ends with status ok and the ticket carries *)
(* the mock id <project>-<time>.                                           *)
C35_MockTicketAccepted ==
    outcome["ticket"] \notin {"none", "keyerror"} =>
        /\ outcome["ticket"] = "ok"
        /\ ticket.ticket_id = MockTicketId(JIRA_PROJECT_KEY)
        /\ pc # "raised" \/ outcome["save"] = "raise"

(* C36: a scan whose search call raised, ran into its deadline or returned *)
(* a response that does not parse ends with the failed report, which       *)
(* carries the error; no alert is synthesized and no pipeline run is        *)
(* started in that scan.                                                   *)
C36_FailedSearchFailsScan ==
    /\ [](scan.report.status = "failed" =>
             /\ scan.pc = "done"
             /\ scan.report.error \in {"raise", "timeout", "nonjson", "nocontent", "badshape"}
             /\ scan.hosts = EmptyDict
             /\ scan.started = <<>>
             /\ scan.processed = <<>>
             /\ pc = "idle" /\ alert = NoAlert
             /\ db_activity = <<>> /\ db_tickets = <<>>
             /\ Len(calls) = 1 /\ calls[1].tool = "search_recent")
    /\ [][(scan.pc = "await_search" /\ scan'.pc # "await_search"
              /\ timer >= inflight.timeout) =>
             scan'.report = [status |-> "failed", error |-> "timeout",
                             scan_time_range |-> scan.time_range]]_vars

C36_Witness ==
    /\ scan.pc = "done"
    /\ scan.report.status = "failed"
    /\ scan.report.error = "nonjson"
    /\ calls # <<>>

(* C37: the time range of the search call a scan issues is the time_range  *)
(* argument of the scan, the value the report gives as scan_time_range.    *)
C37_SearchUsesCallerTimeRange ==
    scan.pc # "idle" =>
        /\ scan.search.args.time_range = scan.time_range
        /\ \A i \in 1..Len(calls) :
              calls[i].tool = "search_recent" => calls[i].args.time_range = scan.time_range

(* C38: the processing_time of the returned ticket is the wall clock at    *)
(* the moment ticket creation completed minus the alert's timestamp, and   *)
(* the persisted ticket record carries the same value; the time at which   *)
(* the run started does not enter it.                                      *)
C38_ProcessingTimeFromAlertTimestamp ==
    /\ [][pc = "await_ticket" /\ pc' = "create_incident" =>
             ticket'.processing_time = now - alert.timestamp]_vars
    /\ [][ticket # NoTicket /\ pc' # "retrieve_logs" => ticket' = ticket]_vars
    /\ [](\A i \in 1..Len(db_tickets) :
             db_tickets[i].alert_id = alert.alert_id =>
                db_tickets[i].processing_time = ticket.processing_time)
    /\ [](pc = "returned" =>
             \E i \in 1..Len(db_tickets) : db_tickets[i].alert_id = alert.alert_id)

C38_Witness ==
    /\ pc = "returned"
    /\ alert.timestamp = 0
    /\ start_time = 1
    /\ ticket.processing_time = 2
    /\ now = 3
    /\ db_tickets[Len(db_tickets)].processing_time = 2

(* C39: log_activity never raises: when the commit of an entry fails the   *)
(* entry is dropped and nothing else changes, and the step that follows    *)
(* and the data handed on (analysis, ticket) are those that the outcome of *)
(* the step's tool call or provider call determines, whether the entry was *)
(* written or not.                                                         *)
C39_LogFailureAbsorbed ==
    /\ [][~db_up => db_activity' = db_activity]_vars
    /\ [][LET NextStep ==
                  CASE pc = "idle" -> "retrieve_logs"
                    [] pc = "retrieve_logs" -> "await_logs"
                    [] pc = "await_logs" -> "enrich"
                    [] pc = "enrich" -> "await_cmdb"
                    [] pc = "await_cmdb" -> "analyze"
                    [] pc = "analyze" ->
                          IF outcome'["analysis"] = "none" THEN "await_llm"
                          ELSE "create_ticket"
                    [] pc = "await_llm" -> "create_ticket"
                    [] pc = "create_ticket" ->
                          IF outcome'["ticket"] = "keyerror" THEN "raised"
                          ELSE "await_ticket"
                    [] pc = "await_ticket" ->
                          IF outcome'["ticket"] = "ok" THEN "create_incident"
                          ELSE "raised"
                    [] pc = "create_incident" -> "await_incident"
                    [] pc = "await_incident" -> "save"
                    [] OTHER -> pc'
          IN pc' # pc => pc' = NextStep]_vars
    /\ [][pc' = "create_ticket" /\ pc \in {"analyze", "await_llm"} =>
             analysis' =
                (IF outcome'["analysis"] = "rule"
                 THEN RuleBasedAnalysis(alert, logs, cmdb_data).val.o
                 ELSE IF outcome'["analysis"] = "minimal" THEN MinimalAnalysis(alert)
                 ELSE LlmAnalysis(alert, logs, cmdb_data, llm_reply').val.o)]_vars
    /\ [][pc = "await_ticket" /\ pc' = "create_incident" =>
             /\ ticket'.priority = analysis["priority"]
             /\ ticket'.summary = analysis["summary"]
             /\ ticket'.description = analysis["description"]]_vars

C39_Witness ==
    /\ ~db_up
    /\ db_flips = 0
    /\ db_activity = <<>>
    /\ pc = "save"
    /\ outcome["logs"] = "ok"
    /\ outcome["cmdb"] = "ok"
    /\ outcome["analysis"] = "llm"
    /\ outcome["ticket"] = "ok"
    /\ outcome["incident"] = "ok"

====
